---- MODULE Spec2Model ----
(***************************************************************************)
(* Multi-screen sync: the controller's scan orchestrator (controller.js),   *)
(* the relay (server.js) and the screen-detection pipeline.                 *)
(*                                                                          *)
(* The controller is a single-threaded event loop: every action below is    *)
(* one run-to-completion task (a click handler, a socket handler, a timer   *)
(* callback, or the segment of the async startScan between two awaits).     *)
(* socket.emit is asynchronous: messages travel in FIFO order in c2s        *)
(* (controller to relay) and s2c (relay to controller).                     *)
(***************************************************************************)
EXTENDS Integers, Sequences, FiniteSets, TLC

\* ------------------------------------------------------------------ bounds
MaxScreens == 2      \* screen devices that ever connect
MaxScans == 1        \* invocations of startScan
MaxQueue == 2        \* messages in flight per direction
MaxDisconnects == 1  \* screens that ever disconnect
BangSteps == 2       \* fade steps of triggerBang (18 in the code)
TicksPerSecond == 60 \* clock ticks per second
MaxTime == 4         \* the latest timestamp of a frame callback, in ticks
MaxOneShots == 1     \* runOneShot frame loops pending at a time
MaxAudioLoops == 2   \* tick loops of the audio mode pending at a time
MaxSockets == 3      \* sockets that ever connect to the relay in full
OneShotDuration == 3 \* ticks a one-shot lasts (1200 ms in the code)
cooldownTicks == 1   \* ticks between two beats (cooldownMs, 280 ms in the code)
animationFPS == 30   \* CONFIG.animationFPS

\* ------------------------------------------------------- program constants
RefFrames == 3       \* reference frames averaged
ProbeFrames == 3     \* probe frames averaged per screen

Ids == 1..MaxScreens
NoColor == [null |-> TRUE]                  \* null, undefined
Black == [r |-> 0, g |-> 0, b |-> 0]
White == [r |-> 255, g |-> 255, b |-> 255]  \* stands for the colors with a non-zero channel
Colors == {Black, White}
\* the final colors of the playback frames: colorDiff from Black is 3 and 4
Palette == {Black, [r |-> 1, g |-> 1, b |-> 1], [r |-> 2, g |-> 1, b |-> 1]}

Abs(v) == IF v < 0 THEN 0 - v ELSE v

\* the sum of the signed channel differences
colorDiffSigned(c1, c2) == (c1.r - c2.r) + (c1.g - c2.g) + (c1.b - c2.b)
\* colorDiff(c1, c2)
colorDiff(c1, c2) == Abs(c1.r - c2.r) + Abs(c1.g - c2.g) + Abs(c1.b - c2.b)

VARIABLES
  \* relay (server.js)
  connectedDevices,  \* screens in Map insertion order: [socketId, position, color]
  lastState,         \* lastState.broadcastColor
  nextId,            \* the next socket id to connect
  \* channels
  c2s, s2c,
  \* controller (controller.js)
  webcamPc,          \* position of the async startWebcam
  webcamStream, analysisCtx,
  screens,           \* last received screenList: [socketId, position]
  isScanning, isAnimating, audioBeatEnabled,
  animationFrame,    \* a requestAnimationFrame(animate) callback is pending
  detectedScreens,   \* the list captured by the running animate closure
  lastColors,
  scanBtn, playBtn, stopBtn,   \* the buttons' .disabled
  bangTimers,        \* pending setTimeout callbacks of triggerBang
  \* the async startScan
  scanPc, scanI, scanScreen, scanFrames, scanNo,
  \* history: what startScan did (emits, captures, console output), this scan,
  \* as <<event, screen id, loop index>>
  scanLog,
  scanStart,         \* history: the ids in screens when this scan started
  stopRequested,     \* history: stop or blackout pressed during this scan
  \* one call of detectScreenArea(baseFrame, activeFrame)
  detPc,             \* the step of detectScreenArea that has been carried out
  rects,             \* history: the rectangles painted into activeFrame
  baseFrame, activeFrame,
  diffMap, blurredDiff, threshold, binaryMask, processedMask, blob,
  returned,         \* the value returned
  \* one call of a pure function of controller.js
  callPc,            \* "call" before the call, "return" after it
  callArgs,          \* the arguments
  callResult,        \* the value returned
  \* playback: the frame callbacks of animate and of runOneShot's frame
  clock,             \* the timestamp of the latest frame callback, in ticks
  lastFrameTime,     \* of the animate closure
  pendingFrames,     \* requestAnimationFrame(animate) callbacks not yet run
  sent,              \* history: the last color a frame sent to each screen since
                     \* lastColors was last cleared
  finalColors,       \* history: the colors computed by the latest processed frame
  lastTick,          \* history: the latest callback that advanced the clock,
                     \* [loop, kind]
  oneShotRunning,
  oneShots,          \* the frame closures of runOneShot whose callback is pending:
                     \* [start, lastFrameTime, detectedScreens]
  \* audio beat mode
  audioPc,           \* position of the async startAudioBeatMode
  audioAnalyser,
  audioRaf,          \* the handle of the latest requestAnimationFrame(tick)
  audioTicks,        \* requestAnimationFrame(tick) callbacks not yet run
  lastBeatAt,
  \* the relay in full (server.js)
  emitted,           \* what the latest handler emitted, in order: [to, event, data]
  blackedOut,        \* blackout() has run and no user-initiated action since
  controllerScreens  \* screens of the controller page on each socket

relayVars == <<connectedDevices, lastState, nextId>>
chanVars == <<c2s, s2c>>
camVars == <<webcamPc, webcamStream, analysisCtx>>
animVars == <<isAnimating, animationFrame, detectedScreens, lastColors>>
btnVars == <<scanBtn, playBtn, stopBtn>>
scanVars == <<scanPc, scanI, scanScreen, scanFrames, scanNo, scanLog, scanStart>>
detVars == <<detPc, rects, baseFrame, activeFrame, diffMap, blurredDiff, threshold,
             binaryMask, processedMask, blob, returned>>
protocolVars == <<relayVars, chanVars, camVars, screens, isScanning, audioBeatEnabled,
                  animVars, btnVars, bangTimers, scanVars, stopRequested>>
callVars == <<callPc, callArgs, callResult>>
loopVars == <<clock, lastFrameTime, pendingFrames, sent, finalColors, lastTick>>
oneShotVars == <<oneShotRunning, oneShots>>
audioVars == <<audioPc, audioAnalyser, audioRaf, audioTicks, lastBeatAt>>
playVars == <<loopVars, oneShotVars, audioVars>>
vars == <<protocolVars, detVars, callVars, playVars, emitted, blackedOut,
         controllerScreens>>

\* ------------------------------------------------------------------- relay

\* getScreens(): the screen records, in registration order
getScreens(devs) ==
  [k \in 1..Len(devs) |-> [socketId |-> devs[k].socketId, position |-> devs[k].position]]

HasDevice(devs, id) == \E k \in 1..Len(devs) : devs[k].socketId = id

\* a clearPositions handler that leaves every position as it is
clearPositionsKept(devs) == devs

\* socket.on('clearPositions')
clearPositions(devs) ==
  [k \in 1..Len(devs) |-> [devs[k] EXCEPT !.position = 0]]

\* socket.on('broadcastColor')
broadcastColor(devs, color) ==
  [k \in 1..Len(devs) |-> [devs[k] EXCEPT !.color = color]]

\* socket.on('sendColor')
sendColor(devs, id, color) ==
  [k \in 1..Len(devs) |->
     IF devs[k].socketId = id THEN [devs[k] EXCEPT !.color = color] ELSE devs[k]]

\* socket.on('sendColors'): the entries in order
RECURSIVE sendColors(_, _)
sendColors(devs, data) ==
  IF data = <<>> THEN devs
  ELSE sendColors(sendColor(devs, Head(data).screenId, Head(data).color), Tail(data))

\* socket.on('reportPosition'): the record is changed only if it exists
reportPosition(devs, id, pos) ==
  [k \in 1..Len(devs) |->
     IF devs[k].socketId = id THEN [devs[k] EXCEPT !.position = pos] ELSE devs[k]]

\* The relay's state after one controller message: [devs, last, list], list
\* telling whether broadcastScreenList() runs.
RelayApply(devs, last, m) ==
  CASE m.type = "clearPositions" ->
         [devs |-> clearPositions(devs), last |-> last, list |-> TRUE]
    [] m.type = "broadcastColor" ->
         [devs |-> broadcastColor(devs, m.color), last |-> m.color, list |-> FALSE]
    [] m.type = "sendColor" ->
         [devs |-> sendColor(devs, m.screenId, m.color), last |-> last, list |-> FALSE]
    [] m.type = "sendColors" ->
         [devs |-> sendColors(devs, m.data), last |-> last, list |-> FALSE]
    [] m.type = "reportPosition" ->
         [devs |-> reportPosition(devs, m.screenId, m.position), last |-> last,
          list |-> HasDevice(devs, m.screenId)]

\* a controller message is handled
RelayHandle ==
  /\ c2s # <<>>
  /\ LET r == RelayApply(connectedDevices, lastState, Head(c2s)) IN
       /\ r.list => Len(s2c) < MaxQueue
       /\ connectedDevices' = r.devs
       /\ lastState' = r.last
       /\ s2c' = IF r.list THEN Append(s2c, getScreens(r.devs)) ELSE s2c
  /\ c2s' = Tail(c2s)
  /\ UNCHANGED <<blackedOut, controllerScreens, emitted, detVars, callVars, playVars>>
  /\ UNCHANGED <<nextId, camVars, screens, isScanning, audioBeatEnabled, animVars,
                 btnVars, bangTimers, scanVars, stopRequested>>

\* socket.on('register') of a screen: it inherits the last broadcast color
ScreenRegister ==
  /\ nextId <= MaxScreens
  /\ Len(s2c) < MaxQueue
  /\ LET dev == [socketId |-> nextId, position |-> 0, color |-> lastState]
         devs == Append(connectedDevices, dev) IN
       /\ connectedDevices' = devs
       /\ s2c' = Append(s2c, getScreens(devs))
  /\ nextId' = nextId + 1
  /\ UNCHANGED <<blackedOut, controllerScreens, emitted, detVars, callVars, playVars>>
  /\ UNCHANGED <<lastState, c2s, camVars, screens, isScanning, audioBeatEnabled,
                 animVars, btnVars, bangTimers, scanVars, stopRequested>>

Remove(devs, id) == SelectSeq(devs, LAMBDA d : d.socketId # id)

\* socket.on('disconnect') of a screen
ScreenDisconnect ==
  /\ nextId - 1 - Len(connectedDevices) < MaxDisconnects
  /\ Len(s2c) < MaxQueue
  /\ \E k \in 1..Len(connectedDevices) :
       LET devs == Remove(connectedDevices, connectedDevices[k].socketId) IN
         /\ connectedDevices' = devs
         /\ s2c' = Append(s2c, getScreens(devs))
  /\ UNCHANGED <<blackedOut, controllerScreens, emitted, detVars, callVars, playVars>>
  /\ UNCHANGED <<lastState, nextId, c2s, camVars, screens, isScanning,
                 audioBeatEnabled, animVars, btnVars, bangTimers, scanVars,
                 stopRequested>>

\* ----------------------------------------------------------- relay in full

\* The handlers of server.js with every device type, every field of a record
\* and every emit. A record is [socketId, id, type, name, position, area,
\* color], socketId being its key in the Map; a client registers as it
\* connects.

Null == [null |-> TRUE]
Undefined == [undefined |-> TRUE]
Empty == [text |-> "", no |-> 0]           \* the string ''

\* null, undefined and '' are falsy
Truthy(v) == v # Null /\ v # Undefined /\ v # Empty

IndexOf(devs, sock) == {k \in 1..Len(devs) : devs[k].socketId = sock}

\* a Map lookup that falls back on the first device
DeviceOfOrFirst(devs, sock) ==
  IF IndexOf(devs, sock) # {} THEN devs[CHOOSE k \in IndexOf(devs, sock) : TRUE]
  ELSE IF devs = <<>> THEN Undefined ELSE devs[1]

\* connectedDevices.get(sock)
DeviceOf(devs, sock) ==
  IF IndexOf(devs, sock) = {} THEN Undefined
  ELSE devs[CHOOSE k \in IndexOf(devs, sock) : TRUE]

\* connectedDevices.set(sock, device): a new key comes last, an old one keeps
\* its place
SetDevice(devs, device) ==
  IF IndexOf(devs, device.socketId) = {} THEN Append(devs, device)
  ELSE [k \in 1..Len(devs) |->
          IF devs[k].socketId = device.socketId THEN device ELSE devs[k]]

\* getScreens() on the full records
ScreenRecords(devs) == SelectSeq(devs, LAMBDA dev : dev.type = "screen")

\* a broadcast that reaches getController() only, the first controller
broadcastToController(devs) ==
  LET controllers == SelectSeq(devs, LAMBDA dev : dev.type = "controller") IN
    [k \in 1..(IF controllers = <<>> THEN 0 ELSE 1) |->
       [to |-> controllers[k].socketId, event |-> "screenList",
        data |-> [screens |-> ScreenRecords(devs)]]]

\* broadcastScreenList(): what is emitted, to the controllers in Map order;
\* the array sent is held in the field screens of the payload
broadcastScreenList(devs) ==
  LET controllers == SelectSeq(devs, LAMBDA dev : dev.type = "controller") IN
    [k \in 1..Len(controllers) |->
       [to |-> controllers[k].socketId, event |-> "screenList",
        data |-> [screens |-> ScreenRecords(devs)]]]

DeviceTypes == {"screen", "controller"}
\* the name a client sends: the controller's or a screen's own; the first
\* socket may also send none
DeviceNames(sock, type) ==
  {IF type = "controller" THEN [text |-> "Main Controller", no |-> 0]
                          ELSE [text |-> "Screen-", no |-> sock]}
  \cup (IF sock = 1 THEN {Empty} ELSE {})
Positions == {[x |-> 1, y |-> 2]}
Areas == {[x |-> 0, y |-> 1, width |-> 2, height |-> 2]}

\* a registration that never pushes the last broadcast colour
inheritsNever(type, state) == FALSE

\* if (type === 'screen') { if (lastState.broadcastColor) { ... } }
inheritsBroadcast(type, state) == type = "screen" /\ Truthy(state)

\* socket.on('register') on the socket sock with the data { type, name }
registerOn(sock, type, name) ==
    /\ LET inherits == inheritsBroadcast(type, lastState)
           device == [socketId |-> sock, id |-> sock, type |-> type,
                      name |-> IF Truthy(name) THEN name
                               ELSE [text |-> "Device-", no |-> sock],
                      position |-> Null, area |-> Undefined,
                      color |-> IF inherits THEN lastState ELSE NoColor]
           devs == SetDevice(connectedDevices, device)
       IN /\ connectedDevices' = devs
          /\ emitted' =
               <<[to |-> sock, event |-> "registered",
                  data |-> [id |-> sock, name |-> device.name]]>>
               \o (IF inherits
                     THEN <<[to |-> sock, event |-> "setColor", data |-> lastState]>>
                     ELSE <<>>)
               \o (IF type = "screen" THEN broadcastScreenList(devs) ELSE <<>>)
               \o (IF type = "controller"
                     THEN <<[to |-> sock, event |-> "screenList",
                             data |-> [screens |-> ScreenRecords(devs)]]>>
                     ELSE <<>>)
    /\ nextId' = IF sock = nextId THEN nextId + 1 ELSE nextId
    /\ UNCHANGED <<blackedOut, controllerScreens, detVars, callVars, playVars>>
    /\ UNCHANGED <<lastState, chanVars, camVars, screens, isScanning, audioBeatEnabled,
                   animVars, btnVars, bangTimers, scanVars, stopRequested>>

\* io.on('connection') and the client's socket.on('connect'): a client
\* registers once on each connection, which has a socket id of its own
OnRegister ==
  \E sock \in 1..MaxSockets, type \in DeviceTypes :
  \E name \in DeviceNames(sock, type) :
    /\ sock = nextId
    /\ registerOn(sock, type, name)

\* socket.on('reportPosition') with the data { screenId, x, y, area }
reportPositionOf(screenId, pos, area) ==
    LET device == DeviceOf(connectedDevices, screenId) IN
    /\ IF Truthy(device)
         THEN LET devs == SetDevice(connectedDevices,
                            [device EXCEPT !.position = pos,
                                           !.area = IF Truthy(area) THEN area ELSE Null])
              IN /\ connectedDevices' = devs
                 /\ emitted' = broadcastScreenList(devs)
         ELSE /\ connectedDevices' = connectedDevices
              /\ emitted' = <<>>
    /\ UNCHANGED <<blackedOut, controllerScreens, detVars, callVars, playVars>>
    /\ UNCHANGED <<lastState, nextId, chanVars, camVars, screens, isScanning,
                   audioBeatEnabled, animVars, btnVars, bangTimers, scanVars,
                   stopRequested>>

\* reportPosition from a controller, which sends the area it detected:
\* screenId is any id
OnReportPosition ==
  \E screenId \in 1..MaxSockets, pos \in Positions, area \in Areas :
    reportPositionOf(screenId, pos, area)
\* socket.on('sendColor') from any client
OnSendColor ==
  \E screenId \in 1..MaxSockets, color \in Colors :
    LET device == DeviceOf(connectedDevices, screenId) IN
    /\ connectedDevices' = IF Truthy(device)
                             THEN SetDevice(connectedDevices,
                                            [device EXCEPT !.color = color])
                             ELSE connectedDevices
    /\ emitted' = <<[to |-> screenId, event |-> "setColor", data |-> color]>>
    /\ UNCHANGED <<blackedOut, controllerScreens, detVars, callVars, playVars>>
    /\ UNCHANGED <<lastState, nextId, chanVars, camVars, screens, isScanning,
                   audioBeatEnabled, animVars, btnVars, bangTimers, scanVars,
                   stopRequested>>

\* socket.on('broadcastColor') from any client
OnBroadcastColor ==
  \E color \in Colors :
    /\ lastState' = color
    /\ connectedDevices' =
         [k \in 1..Len(connectedDevices) |->
            IF connectedDevices[k].type = "screen"
              THEN [connectedDevices[k] EXCEPT !.color = color]
              ELSE connectedDevices[k]]
    /\ emitted' = LET scrs == ScreenRecords(connectedDevices) IN
                    [k \in 1..Len(scrs) |->
                       [to |-> scrs[k].socketId, event |-> "setColor", data |-> color]]
    /\ UNCHANGED <<blackedOut, controllerScreens, detVars, callVars, playVars>>
    /\ UNCHANGED <<nextId, chanVars, camVars, screens, isScanning, audioBeatEnabled,
                   animVars, btnVars, bangTimers, scanVars, stopRequested>>

\* a handler that clears the records of every type
clearedEveryDevice(devs) ==
  [k \in 1..Len(devs) |-> [devs[k] EXCEPT !.position = Null, !.area = Null]]
\* what the handler of clearPositions leaves in the Map
clearedPositions(devs) ==
  [k \in 1..Len(devs) |->
     IF devs[k].type = "screen"
       THEN [devs[k] EXCEPT !.position = Null, !.area = Null]
       ELSE devs[k]]

\* socket.on('clearPositions') from any client
OnClearPositions ==
  /\ connectedDevices' = clearedPositions(connectedDevices)
  /\ emitted' = broadcastScreenList(connectedDevices')
  /\ UNCHANGED <<blackedOut, controllerScreens, detVars, callVars, playVars>>
  /\ UNCHANGED <<lastState, nextId, chanVars, camVars, screens, isScanning,
                 audioBeatEnabled, animVars, btnVars, bangTimers, scanVars,
                 stopRequested>>

\* socket.on('disconnect') of a registered socket
OnDisconnect ==
  \E k \in 1..Len(connectedDevices) :
    LET device == connectedDevices[k]
        devs == SelectSeq(connectedDevices, LAMBDA dev : dev.socketId # device.socketId)
    IN /\ connectedDevices' = devs
       /\ emitted' = IF device.type = "screen" THEN broadcastScreenList(devs) ELSE <<>>
       /\ UNCHANGED <<blackedOut, controllerScreens, detVars, callVars, playVars>>
       /\ UNCHANGED <<lastState, nextId, chanVars, camVars, screens, isScanning,
                      audioBeatEnabled, animVars, btnVars, bangTimers, scanVars,
                      stopRequested>>

\* ------------------------------------------------------------- controller

\* updateControls(): the three buttons' .disabled
updateControls(stream, scrs, scanning, animating, audio) ==
  LET hasDetected == \E k \in 1..Len(scrs) : scrs[k].position # 0 IN
  [scan |-> ~stream \/ Len(scrs) = 0 \/ scanning,
   play |-> IF audio THEN TRUE ELSE ~hasDetected \/ animating,
   stop |-> IF audio THEN TRUE ELSE ~animating]

SetButtons(b) == /\ scanBtn' = b.scan /\ playBtn' = b.play /\ stopBtn' = b.stop

\* socket.on('screenList')
ScreenList ==
  /\ s2c # <<>>
  /\ screens' = Head(s2c)
  /\ s2c' = Tail(s2c)
  /\ SetButtons(updateControls(webcamStream, Head(s2c), isScanning, isAnimating,
                               audioBeatEnabled))
  /\ UNCHANGED <<blackedOut, controllerScreens, emitted, detVars, callVars, playVars>>
  /\ UNCHANGED <<relayVars, c2s, camVars, isScanning, audioBeatEnabled, animVars,
                 bangTimers, scanVars, stopRequested>>

\* startWebcam(): click, then getUserMedia and video.play() settle
StartWebcam ==
  /\ webcamPc \in {"none", "failed"}
  /\ webcamPc' = "getUserMedia"
  /\ blackedOut' = FALSE
  /\ UNCHANGED <<controllerScreens, emitted, detVars, callVars, playVars>>
  /\ UNCHANGED <<relayVars, chanVars, webcamStream, analysisCtx, screens, isScanning,
                 audioBeatEnabled, animVars, btnVars, bangTimers, scanVars,
                 stopRequested>>

\* getUserMedia rejects: the catch block, webcamStream keeps its value
GetUserMediaRejected ==
  /\ webcamPc = "getUserMedia"
  /\ webcamPc' = IF webcamStream THEN "failed" ELSE "none"
  /\ UNCHANGED <<blackedOut, controllerScreens, emitted, detVars, callVars, playVars>>
  /\ UNCHANGED <<relayVars, chanVars, webcamStream, analysisCtx, screens, isScanning,
                 audioBeatEnabled, animVars, btnVars, bangTimers, scanVars,
                 stopRequested>>

\* getUserMedia resolves: webcamStream is assigned before video.play() is awaited
GetUserMediaResolved ==
  /\ webcamPc = "getUserMedia"
  /\ webcamStream' = TRUE
  /\ webcamPc' = "play"
  /\ UNCHANGED <<blackedOut, controllerScreens, emitted, detVars, callVars, playVars>>
  /\ UNCHANGED <<relayVars, chanVars, analysisCtx, screens, isScanning,
                 audioBeatEnabled, animVars, btnVars, bangTimers, scanVars,
                 stopRequested>>

\* video.play() resolves: setupCanvases(), updateControls()
PlayResolved ==
  /\ webcamPc = "play"
  /\ webcamPc' = "ready"
  /\ analysisCtx' = TRUE
  /\ SetButtons(updateControls(webcamStream, screens, isScanning, isAnimating,
                               audioBeatEnabled))
  /\ UNCHANGED <<blackedOut, controllerScreens, emitted, detVars, callVars, playVars>>
  /\ UNCHANGED <<relayVars, chanVars, webcamStream, screens, isScanning,
                 audioBeatEnabled, animVars, bangTimers, scanVars, stopRequested>>

\* video.play() rejects: the catch block; the canvases are never set up
PlayRejected ==
  /\ webcamPc = "play"
  /\ webcamPc' = "failed"
  /\ UNCHANGED <<blackedOut, controllerScreens, emitted, detVars, callVars, playVars>>
  /\ UNCHANGED <<relayVars, chanVars, webcamStream, analysisCtx, screens, isScanning,
                 audioBeatEnabled, animVars, btnVars, bangTimers, scanVars,
                 stopRequested>>

\* socket.emit: the messages are queued towards the relay
CanEmit(n) == Len(c2s) + n <= MaxQueue

\* what the relay's records will hold once every message in flight is handled
RECURSIVE Commanded(_, _, _)
Commanded(devs, last, queue) ==
  IF queue = <<>> THEN devs
  ELSE LET r == RelayApply(devs, last, Head(queue)) IN
         Commanded(r.devs, r.last, Tail(queue))

\* the registered screens whose last commanded color is not black
LitOf(devs) == {devs[k].socketId : k \in {j \in 1..Len(devs) : devs[j].color = White}}
Lit == LitOf(Commanded(connectedDevices, lastState, c2s))
LitAfter(queue) == LitOf(Commanded(connectedDevices, lastState, queue))

NoColors == [id \in Ids |-> NoColor]

\* the ids of a list of screens
IdsOf(list) == {list[k] : k \in 1..Len(list)}

\* getDetectedScreens(): the screens that have a position, by id
getDetectedScreens ==
  LET det == SelectSeq(screens, LAMBDA s : s.position # 0) IN
    [k \in 1..Len(det) |-> det[k].socketId]

\* a frame loop that never throttles
NeverTooSoon(currentTime, last) == FALSE

\* currentTime - lastFrameTime < frameInterval, the frame interval being
\* 1000 / CONFIG.animationFPS ms and the times being in ticks
TooSoon(currentTime, last) == (currentTime - last) * animationFPS < TicksPerSecond

NoTick == [loop |-> "none", kind |-> "none"]

\* startAnimation(): click on playBtn
StartAnimation ==
  /\ ~playBtn
  /\ IF isAnimating
       THEN UNCHANGED <<animVars, btnVars, lastFrameTime, pendingFrames, sent,
                        finalColors>>
       ELSE /\ isAnimating' = TRUE
            /\ playBtn' = TRUE
            /\ stopBtn' = FALSE
            /\ scanBtn' = scanBtn
            /\ IF getDetectedScreens = <<>>
                 THEN UNCHANGED <<animationFrame, detectedScreens, lastColors,
                                  lastFrameTime, pendingFrames, sent, finalColors>>
                 ELSE /\ lastColors' = NoColors
                      /\ sent' = NoColors
                      /\ finalColors' = NoColors
                      /\ detectedScreens' = getDetectedScreens
                      /\ lastFrameTime' = 0
                      /\ animationFrame' = TRUE
                      /\ pendingFrames' = pendingFrames + 1
  /\ blackedOut' = FALSE
  /\ UNCHANGED <<controllerScreens, emitted, detVars, callVars, clock, lastTick, oneShotVars, audioVars>>
  /\ UNCHANGED <<relayVars, chanVars, camVars, screens, isScanning, audioBeatEnabled,
                 bangTimers, scanVars, stopRequested>>

\* a frame that also sends a color whose colorDiff from the last one is 3
animateAtLeast(sampled) ==
  LET changed == SelectSeq(detectedScreens,
                   LAMBDA id : \/ lastColors[id] = NoColor
                               \/ colorDiff(lastColors[id], sampled[id]) >= 3)
      colors == [k \in 1..Len(changed) |->
                   [screenId |-> changed[k], color |-> sampled[changed[k]]]]
  IN [colors |-> colors,
      last |-> [id \in Ids |->
                  IF \E k \in 1..Len(changed) : changed[k] = id
                    THEN sampled[id] ELSE lastColors[id]]]

\* animate(), the frame that is processed. Each screen's final color (the
\* rendered animation, sampled and scaled by the brightness) is an input; a
\* color is sent when none was sent before or when colorDiff from the last
\* one sent exceeds 3.
animate(sampled) ==
  LET changed == SelectSeq(detectedScreens,
                   LAMBDA id : \/ lastColors[id] = NoColor
                               \/ colorDiff(lastColors[id], sampled[id]) > 3)
      colors == [k \in 1..Len(changed) |->
                   [screenId |-> changed[k], color |-> sampled[changed[k]]]]
  IN [colors |-> colors,
      last |-> [id \in Ids |->
                  IF \E k \in 1..Len(changed) : changed[k] = id
                    THEN sampled[id] ELSE lastColors[id]]]

\* the history of the colors sent by frames, after the message colors
SentAfter(colors) ==
  [id \in Ids |->
     IF \E k \in 1..Len(colors) : colors[k].screenId = id
       THEN (CHOOSE e \in {colors[k] : k \in 1..Len(colors)} : e.screenId = id).color
       ELSE sent[id]]

\* the colors a frame computed for the screens in detected
Computed(detected, sampled) ==
  [id \in Ids |-> IF id \in IdsOf(detected) THEN sampled[id] ELSE NoColor]

\* animate() without its timing: a frame callback that is not throttled and
\* that sends at least one color
Animate ==
  /\ animationFrame
  /\ isAnimating
  /\ \E sampled \in [Ids -> Colors] :
       LET r == animate(sampled) IN
         /\ r.colors # <<>>
         /\ CanEmit(1)
         /\ c2s' = Append(c2s, [type |-> "sendColors", data |-> r.colors])
         /\ lastColors' = r.last
         /\ sent' = SentAfter(r.colors)
         /\ finalColors' = Computed(detectedScreens, sampled)
  /\ UNCHANGED <<blackedOut, controllerScreens, emitted, detVars, callVars, clock, lastFrameTime, pendingFrames, lastTick,
                 oneShotVars, audioVars>>
  /\ UNCHANGED <<relayVars, s2c, camVars, screens, isScanning, audioBeatEnabled,
                 isAnimating, animationFrame, detectedScreens, btnVars, bangTimers,
                 scanVars, stopRequested>>

\* animate(currentTime): a requestAnimationFrame callback of the animation
\* loop runs. The animate closure is the one startAnimation created last.
AnimateTick ==
  /\ pendingFrames > 0
  /\ \E currentTime \in (clock + 1)..MaxTime :
       /\ clock' = currentTime
       /\ IF ~isAnimating
            THEN /\ pendingFrames' = pendingFrames - 1
                 /\ lastTick' = [loop |-> "animate", kind |-> "returned"]
                 /\ UNCHANGED <<c2s, lastColors, animationFrame, lastFrameTime, sent,
                                finalColors>>
            ELSE IF TooSoon(currentTime, lastFrameTime)
            THEN /\ animationFrame' = TRUE
                 /\ lastTick' = [loop |-> "animate", kind |-> "dropped"]
                 /\ UNCHANGED <<pendingFrames, c2s, lastColors, lastFrameTime, sent,
                                finalColors>>
            ELSE \E sampled \in [IdsOf(detectedScreens) -> Palette] :
                   LET r == animate(sampled) IN
                     /\ lastFrameTime' = currentTime
                     /\ finalColors' = Computed(detectedScreens, sampled)
                     /\ r.colors # <<>> => CanEmit(1)
                     /\ c2s' = IF r.colors # <<>>
                                 THEN Append(c2s, [type |-> "sendColors",
                                                   data |-> r.colors])
                                 ELSE c2s
                     /\ lastColors' = r.last
                     /\ sent' = SentAfter(r.colors)
                     /\ animationFrame' = TRUE
                     /\ lastTick' = [loop |-> "animate", kind |-> "processed"]
                     /\ UNCHANGED pendingFrames
  /\ UNCHANGED <<blackedOut, controllerScreens, emitted, detVars, callVars, oneShotVars, audioVars>>
  /\ UNCHANGED <<relayVars, s2c, camVars, screens, isScanning, audioBeatEnabled,
                 isAnimating, detectedScreens, btnVars, bangTimers, scanVars,
                 stopRequested>>

\* stopAnimation() but for the two buttons: cancelAnimationFrame removes the
\* callback the handle names
stopAnimationLoop ==
  /\ isAnimating' = FALSE
  /\ pendingFrames' = IF animationFrame /\ pendingFrames > 0
                        THEN pendingFrames - 1 ELSE pendingFrames
  /\ animationFrame' = FALSE
  /\ lastColors' = NoColors
  /\ sent' = NoColors
  /\ finalColors' = NoColors
  /\ UNCHANGED <<detectedScreens, lastFrameTime>>

\* stopAnimation()
stopAnimation ==
  /\ stopAnimationLoop
  /\ playBtn' = FALSE
  /\ stopBtn' = TRUE

\* click on stopBtn
StopAnimation ==
  /\ ~stopBtn
  /\ stopAnimation
  /\ stopRequested' = (stopRequested \/ isScanning)
  /\ blackedOut' = FALSE
  /\ UNCHANGED <<controllerScreens, emitted, detVars, callVars, clock, lastTick, oneShotVars, audioVars>>
  /\ UNCHANGED <<relayVars, chanVars, camVars, screens, isScanning, audioBeatEnabled,
                 scanBtn, bangTimers, scanVars>>

\* blackout(): click on blackoutBtn, which is never disabled
Blackout ==
  /\ CanEmit(1)
  /\ stopAnimation
  /\ c2s' = Append(c2s, [type |-> "broadcastColor", color |-> Black])
  /\ stopRequested' = (stopRequested \/ isScanning)
  /\ blackedOut' = TRUE
  /\ UNCHANGED <<controllerScreens, emitted, detVars, callVars, clock, lastTick, oneShotVars, audioVars>>
  /\ UNCHANGED <<relayVars, s2c, camVars, screens, isScanning, audioBeatEnabled,
                 scanBtn, bangTimers, scanVars>>

\* triggerBang(color): one timer per fade step is set. At most one bang is in
\* flight here.
triggerBang ==
  /\ bangTimers = 0
  /\ stopAnimation
  /\ bangTimers' = BangSteps + 1

\* click on a bang button (never disabled)
TriggerBang ==
  /\ triggerBang
  /\ blackedOut' = FALSE
  /\ UNCHANGED <<controllerScreens, emitted, detVars, callVars, clock, lastTick, oneShotVars, audioVars>>
  /\ UNCHANGED <<relayVars, chanVars, camVars, screens, isScanning, audioBeatEnabled,
                 scanBtn, scanVars, stopRequested>>

\* the payload of fade step i: the factor is 0 at the last step only
BangPayload(i) == IF i = BangSteps THEN Black ELSE White

\* a timer of triggerBang fires (they fire in the order of their delays)
BangTimer ==
  /\ bangTimers > 0
  /\ CanEmit(1)
  /\ c2s' = Append(c2s, [type |-> "broadcastColor",
                         color |-> BangPayload(BangSteps + 1 - bangTimers)])
  /\ bangTimers' = bangTimers - 1
  /\ UNCHANGED <<blackedOut, controllerScreens, emitted, detVars, callVars, playVars>>
  /\ UNCHANGED <<relayVars, s2c, camVars, screens, isScanning, audioBeatEnabled,
                 animVars, btnVars, scanVars, stopRequested>>

\* ------------------------------------------------ one-shots and audio beat

\* sampleAndSendFrame(detectedScreens), the final colors being an input
sampleAndSendFrame(detected, sampled) ==
  LET changed == SelectSeq(detected,
                   LAMBDA id : \/ lastColors[id] = NoColor
                               \/ colorDiff(lastColors[id], sampled[id]) > 3)
      colors == [k \in 1..Len(changed) |->
                   [screenId |-> changed[k], color |-> sampled[changed[k]]]]
  IN [colors |-> colors,
      last |-> [id \in Ids |->
                  IF \E k \in 1..Len(changed) : changed[k] = id
                    THEN sampled[id] ELSE lastColors[id]]]

\* runOneShot('pulse', 1200) called at time now; without a detected screen it
\* falls back to triggerBang
runOneShot(now) ==
  IF oneShotRunning
    THEN UNCHANGED <<oneShotVars, isAnimating, animationFrame, detectedScreens,
                     lastColors, playBtn, stopBtn, bangTimers, lastFrameTime,
                     pendingFrames, sent, finalColors>>
    ELSE IF getDetectedScreens = <<>>
    THEN /\ triggerBang
         /\ UNCHANGED oneShotVars
    ELSE /\ Len(oneShots) < MaxOneShots
         /\ oneShotRunning' = TRUE
         /\ lastColors' = NoColors
         /\ sent' = NoColors
         /\ finalColors' = NoColors
         /\ oneShots' = Append(oneShots, [start |-> now, lastFrameTime |-> 0,
                                          detectedScreens |-> getDetectedScreens])
         /\ UNCHANGED <<isAnimating, animationFrame, detectedScreens, playBtn, stopBtn,
                        bangTimers, lastFrameTime, pendingFrames>>

Without(seq, k) == [j \in 1..(Len(seq) - 1) |-> IF j < k THEN seq[j] ELSE seq[j + 1]]

\* frame(now) of runOneShot: the callback of the k-th pending closure runs
OneShotFrame ==
  \E k \in 1..Len(oneShots) : \E now \in (clock + 1)..MaxTime :
    LET shot == oneShots[k]
        elapsed == now - shot.start
        final == elapsed >= OneShotDuration
        due == ~TooSoon(now, shot.lastFrameTime)
    IN
    /\ clock' = now
    /\ IF final \/ due
         THEN \E sampled \in [IdsOf(shot.detectedScreens) -> Palette] :
                LET r == sampleAndSendFrame(shot.detectedScreens, sampled) IN
                  /\ finalColors' = Computed(shot.detectedScreens, sampled)
                  /\ r.colors # <<>> => CanEmit(1)
                  /\ c2s' = IF r.colors # <<>>
                              THEN Append(c2s, [type |-> "sendColors",
                                                data |-> r.colors])
                              ELSE c2s
                  /\ lastColors' = r.last
                  /\ sent' = SentAfter(r.colors)
                  /\ lastTick' = [loop |-> "oneShot",
                                  kind |-> IF final THEN "final" ELSE "processed"]
         ELSE /\ lastTick' = [loop |-> "oneShot", kind |-> "dropped"]
              /\ UNCHANGED <<c2s, lastColors, sent, finalColors>>
    /\ IF final
         THEN /\ oneShotRunning' = FALSE
              /\ oneShots' = Without(oneShots, k)
         ELSE /\ oneShotRunning' = oneShotRunning
              /\ oneShots' = [oneShots EXCEPT
                                ![k].lastFrameTime = IF due THEN now ELSE @]
    /\ UNCHANGED <<blackedOut, controllerScreens, emitted, detVars, callVars, lastFrameTime, pendingFrames, audioVars>>
    /\ UNCHANGED <<relayVars, s2c, camVars, screens, isScanning, audioBeatEnabled,
                   isAnimating, animationFrame, detectedScreens, btnVars, bangTimers,
                   scanVars, stopRequested>>

\* startAudioBeatMode() up to its await: click on the audioBeat animation.
\* updateControls() overwrites the buttons stopAnimation() has set. At most
\* one getUserMedia is pending here.
StartAudioBeatMode ==
  /\ ~audioBeatEnabled
  /\ audioPc = "none"
  /\ audioBeatEnabled' = TRUE
  /\ oneShotRunning' = FALSE
  /\ stopAnimationLoop
  /\ SetButtons(updateControls(webcamStream, screens, isScanning, FALSE, TRUE))
  /\ audioPc' = "getUserMedia"
  /\ blackedOut' = FALSE
  /\ UNCHANGED <<controllerScreens, emitted, detVars, callVars, clock, lastTick, oneShots, audioAnalyser, audioRaf,
                 audioTicks, lastBeatAt>>
  /\ UNCHANGED <<relayVars, chanVars, camVars, screens, isScanning, bangTimers,
                 scanVars, stopRequested>>

\* getUserMedia({audio}) resolves: the analyser is built and tick is scheduled
AudioResolved ==
  /\ audioPc = "getUserMedia"
  /\ audioTicks < MaxAudioLoops
  /\ audioPc' = "none"
  /\ audioAnalyser' = TRUE
  /\ lastBeatAt' = 0
  /\ audioRaf' = TRUE
  /\ audioTicks' = audioTicks + 1
  /\ UNCHANGED <<blackedOut, controllerScreens, emitted, detVars, callVars, loopVars, oneShotVars>>
  /\ UNCHANGED <<relayVars, chanVars, camVars, screens, isScanning, audioBeatEnabled,
                 animVars, btnVars, bangTimers, scanVars, stopRequested>>

\* getUserMedia({audio}) rejects: the catch block
AudioRejected ==
  /\ audioPc = "getUserMedia"
  /\ audioPc' = "none"
  /\ audioBeatEnabled' = FALSE
  /\ SetButtons(updateControls(webcamStream, screens, isScanning, isAnimating, FALSE))
  /\ UNCHANGED <<blackedOut, controllerScreens, emitted, detVars, callVars, loopVars, oneShotVars, audioAnalyser, audioRaf,
                 audioTicks, lastBeatAt>>
  /\ UNCHANGED <<relayVars, chanVars, camVars, screens, isScanning, animVars,
                 bangTimers, scanVars, stopRequested>>

\* tick() of the audio mode: a requestAnimationFrame callback runs; whether
\* the bass energy makes a boom is an input
AudioTick ==
  /\ audioTicks > 0
  /\ \E now \in (clock + 1)..MaxTime : \E boom \in BOOLEAN :
       /\ clock' = now
       /\ IF ~audioBeatEnabled \/ ~audioAnalyser
            THEN /\ boom = FALSE
                 /\ lastTick' = [loop |-> "tick", kind |-> "returned"]
                 /\ audioTicks' = audioTicks - 1
                 /\ UNCHANGED <<audioRaf, lastBeatAt, oneShotVars, isAnimating,
                                animationFrame, detectedScreens, lastColors, playBtn,
                                stopBtn, bangTimers, lastFrameTime, pendingFrames,
                                sent, finalColors>>
            ELSE /\ audioRaf' = TRUE
                 /\ audioTicks' = audioTicks
                 /\ IF boom /\ now - lastBeatAt > cooldownTicks
                      THEN /\ lastBeatAt' = now
                           /\ lastTick' = [loop |-> "tick", kind |-> "beat"]
                           /\ runOneShot(now)
                      ELSE /\ boom = FALSE
                           /\ lastTick' = [loop |-> "tick", kind |-> "quiet"]
                           /\ UNCHANGED <<lastBeatAt, oneShotVars, isAnimating,
                                          animationFrame, detectedScreens, lastColors,
                                          playBtn, stopBtn, bangTimers, lastFrameTime,
                                          pendingFrames, sent, finalColors>>
  /\ UNCHANGED <<blackedOut, controllerScreens, emitted, detVars, callVars, audioPc, audioAnalyser>>
  /\ UNCHANGED <<relayVars, chanVars, camVars, screens, isScanning, audioBeatEnabled,
                 scanBtn, scanVars, stopRequested>>

\* stopAudioBeatMode(): click on another animation
StopAudioBeatMode ==
  /\ audioBeatEnabled
  /\ audioBeatEnabled' = FALSE
  /\ oneShotRunning' = FALSE
  /\ audioTicks' = IF audioRaf /\ audioTicks > 0 THEN audioTicks - 1 ELSE audioTicks
  /\ audioRaf' = FALSE
  /\ audioAnalyser' = FALSE
  /\ SetButtons(updateControls(webcamStream, screens, isScanning, isAnimating, FALSE))
  /\ blackedOut' = FALSE
  /\ UNCHANGED <<controllerScreens, emitted, detVars, callVars, loopVars, oneShots, audioPc, lastBeatAt>>
  /\ UNCHANGED <<relayVars, chanVars, camVars, screens, isScanning, animVars,
                 bangTimers, scanVars, stopRequested>>

\* ------------------------------------------------------------- startScan

\* captureFrame() dereferences analysisCtx, which is null until setupCanvases()
Capture(id, i) == <<"capture", id, i>>

\* startScan() up to its first await
startScan ==
  /\ scanNo' = scanNo + 1
  /\ IF ~webcamStream \/ Len(screens) = 0
       THEN UNCHANGED <<c2s, isScanning, btnVars, scanPc, scanI, scanScreen,
                        scanFrames, scanLog, scanStart, stopRequested>>
       ELSE /\ CanEmit(2)
            /\ isScanning' = TRUE
            /\ scanBtn' = TRUE
            /\ playBtn' = TRUE
            /\ stopBtn' = stopBtn
            /\ c2s' = c2s \o <<[type |-> "clearPositions"],
                               [type |-> "broadcastColor", color |-> Black]>>
            /\ scanLog' = <<<<"clearPositions", 0, 0>>, <<"allOff", 0, 0>>>>
            /\ scanStart' = {screens[k].socketId : k \in 1..Len(screens)}
            /\ scanPc' = "settle"
            /\ scanI' = 0
            /\ scanScreen' = 0
            /\ scanFrames' = 0
            /\ stopRequested' = FALSE
  /\ blackedOut' = FALSE
  /\ UNCHANGED <<controllerScreens, emitted, detVars, callVars, playVars>>
  /\ UNCHANGED <<relayVars, s2c, camVars, screens, audioBeatEnabled, animVars,
                 bangTimers>>

\* click on scanBtn
StartScan ==
  /\ ~scanBtn
  /\ scanPc \in {"idle", "threw"}
  /\ scanNo < MaxScans
  /\ startScan

\* sleep(600) resolves and the first captureFrame() throws: the async function
\* rejects and nothing after it runs
ScanCaptureThrows ==
  /\ scanPc = "settle"
  /\ ~analysisCtx
  /\ scanPc' = "threw"
  /\ scanLog' = Append(scanLog, <<"settle", 0, 0>>)
  /\ UNCHANGED <<blackedOut, controllerScreens, emitted, detVars, callVars, playVars>>
  /\ UNCHANGED <<relayVars, chanVars, camVars, screens, isScanning, audioBeatEnabled,
                 animVars, btnVars, bangTimers, scanI, scanScreen, scanFrames, scanNo,
                 scanStart, stopRequested>>

\* sleep(600) resolves: the first reference frame
ScanSettled ==
  /\ scanPc = "settle"
  /\ analysisCtx
  /\ scanPc' = "refSleep"
  /\ scanFrames' = 1
  /\ scanLog' = scanLog \o <<<<"settle", 0, 0>>, Capture(0, 0)>>
  /\ UNCHANGED <<blackedOut, controllerScreens, emitted, detVars, callVars, playVars>>
  /\ UNCHANGED <<relayVars, chanVars, camVars, screens, isScanning, audioBeatEnabled,
                 animVars, btnVars, bangTimers, scanI, scanScreen, scanNo, scanStart,
                 stopRequested>>

\* the head of the per-screen loop for index i (0-based): flash screens[i], or
\* leave the loop and finish the scan
LoopHead(i, log) ==
  IF i < Len(screens)
    THEN /\ CanEmit(1)
         /\ c2s' = Append(c2s, [type |-> "sendColor", screenId |-> screens[i + 1].socketId,
                                color |-> White])
         /\ scanScreen' = screens[i + 1].socketId
         /\ scanI' = i
         /\ scanPc' = "flashHold"
         /\ scanFrames' = 0
         /\ scanLog' = Append(log, <<"flash", screens[i + 1].socketId, i>>)
         /\ UNCHANGED <<isScanning, btnVars>>
    ELSE /\ scanPc' = "idle"
         /\ isScanning' = FALSE
         /\ SetButtons(updateControls(webcamStream, screens, FALSE, isAnimating,
                                      audioBeatEnabled))
         /\ scanLog' = Append(log, <<"complete", 0, i>>)
         /\ UNCHANGED <<c2s, scanScreen, scanI, scanFrames>>

\* sleep(50) resolves: the next reference frame, or averageFrames and the loop
ScanRefSleep ==
  /\ scanPc = "refSleep"
  /\ IF scanFrames < RefFrames
       THEN /\ scanFrames' = scanFrames + 1
            /\ scanLog' = Append(scanLog, Capture(0, 0))
            /\ UNCHANGED <<c2s, isScanning, btnVars, scanPc, scanI, scanScreen>>
       ELSE LoopHead(0, scanLog)
  /\ UNCHANGED <<blackedOut, controllerScreens, emitted, detVars, callVars, playVars>>
  /\ UNCHANGED <<relayVars, s2c, camVars, screens, audioBeatEnabled, animVars,
                 bangTimers, scanNo, scanStart, stopRequested>>

\* sleep(scanFlashDuration) resolves: the first probe frame
ScanFlashHeld ==
  /\ scanPc = "flashHold"
  /\ scanPc' = "probeSleep"
  /\ scanFrames' = 1
  /\ scanLog' = Append(scanLog, Capture(scanScreen, scanI))
  /\ UNCHANGED <<blackedOut, controllerScreens, emitted, detVars, callVars, playVars>>
  /\ UNCHANGED <<relayVars, chanVars, camVars, screens, isScanning, audioBeatEnabled,
                 animVars, btnVars, bangTimers, scanI, scanScreen, scanNo, scanStart,
                 stopRequested>>

\* a faulty variant: a failed detection leaves the loop body at once, the
\* screen is not turned off
ProbeAbortsOnFailure(detection) ==
  LET off == [type |-> "sendColor", screenId |-> scanScreen, color |-> Black] IN
  IF detection
    THEN /\ CanEmit(2)
         /\ c2s' = c2s \o <<[type |-> "reportPosition", screenId |-> scanScreen,
                             position |-> scanNo], off>>
         /\ scanLog' = scanLog \o <<<<"reportPosition", scanScreen, scanI>>,
                                    <<"off", scanScreen, scanI>>>>
    ELSE /\ c2s' = c2s
         /\ scanLog' = Append(scanLog, <<"notDetected", scanScreen, scanI>>)

\* a faulty variant: the screen is turned off before its position is reported
ProbeOffBeforeReport(detection) ==
  LET off == [type |-> "sendColor", screenId |-> scanScreen, color |-> Black] IN
  IF detection
    THEN /\ CanEmit(2)
         /\ c2s' = c2s \o <<off, [type |-> "reportPosition", screenId |-> scanScreen,
                                  position |-> scanNo]>>
         /\ scanLog' = scanLog \o <<<<"off", scanScreen, scanI>>,
                                    <<"reportPosition", scanScreen, scanI>>>>
    ELSE /\ CanEmit(1)
         /\ c2s' = Append(c2s, off)
         /\ scanLog' = scanLog \o <<<<"notDetected", scanScreen, scanI>>,
                                    <<"off", scanScreen, scanI>>>>

\* after the last probe frame: detectScreenArea's outcome is an input (it
\* depends on the camera); report if detected, then turn the screen off
Probe(detection) ==
  LET off == [type |-> "sendColor", screenId |-> scanScreen, color |-> Black] IN
  IF detection
    THEN /\ CanEmit(2)
         /\ c2s' = c2s \o <<[type |-> "reportPosition", screenId |-> scanScreen,
                             position |-> scanNo], off>>
         /\ scanLog' = scanLog \o <<<<"reportPosition", scanScreen, scanI>>,
                                    <<"off", scanScreen, scanI>>>>
    ELSE /\ CanEmit(1)
         /\ c2s' = Append(c2s, off)
         /\ scanLog' = scanLog \o <<<<"notDetected", scanScreen, scanI>>,
                                    <<"off", scanScreen, scanI>>>>

\* sleep(30) resolves: the next probe frame, or detection, report and off
ScanProbeSleep ==
  /\ scanPc = "probeSleep"
  /\ IF scanFrames < ProbeFrames
       THEN /\ scanFrames' = scanFrames + 1
            /\ scanLog' = Append(scanLog, Capture(scanScreen, scanI))
            /\ UNCHANGED <<c2s, scanPc>>
       ELSE /\ \E detection \in BOOLEAN : Probe(detection)
            /\ scanPc' = "cooldown"
            /\ scanFrames' = 0
  /\ UNCHANGED <<blackedOut, controllerScreens, emitted, detVars, callVars, playVars>>
  /\ UNCHANGED <<relayVars, s2c, camVars, screens, isScanning, audioBeatEnabled,
                 animVars, btnVars, bangTimers, scanI, scanScreen, scanNo, scanStart,
                 stopRequested>>

\* sleep(scanCooldown) resolves: i++ and the loop head
ScanCooldown ==
  /\ scanPc = "cooldown"
  /\ LoopHead(scanI + 1, Append(scanLog, <<"cooldown", scanScreen, scanI>>))
  /\ UNCHANGED <<blackedOut, controllerScreens, emitted, detVars, callVars, playVars>>
  /\ UNCHANGED <<relayVars, s2c, camVars, screens, audioBeatEnabled, animVars,
                 bangTimers, scanNo, scanStart, stopRequested>>

\* ------------------------------------------- detection (detectScreenArea)
\*
\* Frames are gray images (R = G = B) of DetW x DetH pixels, a function from
\* the pixel index y * width + x to 0..255. Float32 values are fixed-point
\* numbers in units of 1 / Scale; normalized coordinates are integers in units
\* of 1 / Unit(width, height), which makes the geometry helpers exact.

DetW == 16           \* frame width
DetH == 10           \* frame height
EdgeW == 52          \* longer side of the larger frame
EdgeH == 34          \* shorter side of the larger frame
Scale == 8           \* fixed-point resolution of a brightness value

\* CONFIG
brightnessThreshold == 40
minBlobSize == 30
morphologyKernel == 3
gaussianBlurRadius == 2
minNormalizedArea == 2     \* 0.02, in hundredths
maxNormalizedArea == 65    \* 0.65, in hundredths

Clamp(v, lo, hi) == IF v < lo THEN lo ELSE IF v > hi THEN hi ELSE v
Min2(a, b) == IF a < b THEN a ELSE b
Max2(a, b) == IF a > b THEN a ELSE b
SetMin(S) == CHOOSE m \in S : \A n \in S : m <= n
SetMax(S) == CHOOSE m \in S : \A n \in S : m >= n

\* f[lo] + ... + f[hi]
RECURSIVE Sum(_, _, _)
Sum(f, lo, hi) ==
  IF lo > hi THEN 0
  ELSE IF lo = hi THEN f[lo]
  ELSE LET mid == (lo + hi) \div 2 IN Sum(f, lo, mid) + Sum(f, mid + 1, hi)

\* Math.sqrt, rounded down
RECURSIVE SqrtBetween(_, _, _)
SqrtBetween(n, lo, hi) ==
  IF lo >= hi THEN lo
  ELSE LET mid == (lo + hi + 1) \div 2 IN
       IF mid * mid <= n THEN SqrtBetween(n, mid, hi) ELSE SqrtBetween(n, lo, mid - 1)
Sqrt(n) == SqrtBetween(n, 0, 256 * Scale)

\* the weighted RGB luminance of a pixel
Luminance(r, g, b) == ((299 * r + 587 * g + 114 * b) * Scale) \div 1000

\* Math.exp(-n / 2) in units of 1 / 10000, n = 0..4
ExpHalf == <<10000, 6065, 3679, 2231, 1353>>

\* createGaussianKernel(radius), sigma = radius / 2: exp(-(i * i) / (2 * sigma
\* * sigma)) is exp(-(i * i) / 2) for the configured radius. The kernel is
\* left unnormalized: gaussianBlur divides by the sum of the weights it used.
createGaussianKernel(radius) ==
  [k \in 0..(2 * radius) |-> ExpHalf[(k - radius) * (k - radius) + 1]]

\* a blur that reads zero outside the frame in place of the nearest edge pixel
gaussianBlurZeroPadded(data, width, height, radius) ==
  LET kernel == createGaussianKernel(radius)
      weightSum == Sum(kernel, 0, 2 * radius)
      temp == [p \in DOMAIN data |->
                 LET x == p % width
                     y == p \div width IN
                 Sum([k \in 0..(2 * radius) |->
                        IF x + k - radius \in 0..(width - 1)
                          THEN data[y * width + x + k - radius] * kernel[k] ELSE 0],
                     0, 2 * radius) \div weightSum]
  IN [p \in DOMAIN data |->
        LET x == p % width
            y == p \div width IN
        Sum([k \in 0..(2 * radius) |->
               IF y + k - radius \in 0..(height - 1)
                 THEN temp[(y + k - radius) * width + x] * kernel[k] ELSE 0],
            0, 2 * radius) \div weightSum]
\* gaussianBlur(data, width, height, radius): a horizontal and a vertical
\* pass, coordinates clamped at the frame's edges
gaussianBlur(data, width, height, radius) ==
  LET kernel == createGaussianKernel(radius)
      weightSum == Sum(kernel, 0, 2 * radius)
      temp == [p \in DOMAIN data |->
                 LET x == p % width
                     y == p \div width IN
                 Sum([k \in 0..(2 * radius) |->
                        data[y * width + Clamp(x + k - radius, 0, width - 1)] * kernel[k]],
                     0, 2 * radius) \div weightSum]
  IN [p \in DOMAIN data |->
        LET x == p % width
            y == p \div width IN
        Sum([k \in 0..(2 * radius) |->
               temp[Clamp(y + k - radius, 0, height - 1) * width + x] * kernel[k]],
            0, 2 * radius) \div weightSum]

\* the threshold with the statistics taken over every pixel
calculateThresholdOverAll(data, width, height) ==
  LET last == width * height - 1
      count == width * height
      sum == Sum(data, 0, last)
      sumSq == Sum([p \in 0..last |-> data[p] * data[p]], 0, last)
      mean == sum \div count
      variance == Max2(0, sumSq \div count - mean * mean)
  IN Max2(brightnessThreshold * Scale, mean + (Sqrt(variance) * 3) \div 2)
\* calculateAdaptiveThreshold(data, width, height): mean + 1.5 * stdDev over
\* the pixels brighter than 5, at least brightnessThreshold
calculateAdaptiveThreshold(data, width, height) ==
  LET used(p) == data[p] > 5 * Scale
      last == width * height - 1
      count == Sum([p \in 0..last |-> IF used(p) THEN 1 ELSE 0], 0, last)
      sum == Sum([p \in 0..last |-> IF used(p) THEN data[p] ELSE 0], 0, last)
      sumSq == Sum([p \in 0..last |-> IF used(p) THEN data[p] * data[p] ELSE 0], 0, last)
      mean == sum \div count
      rest == sum % count
      \* mean * mean, with the fraction of the mean kept
      meanSq == mean * mean + (2 * mean * rest) \div count + (rest * rest) \div (count * count)
      \* rounding can leave the variance of equal values below zero, and the
      \* threshold NaN; no pixel passes then, as with variance 0, where the
      \* threshold is the value of every pixel used
      variance == Max2(0, sumSq \div count - meanSq)
      stdDev == Sqrt(variance)
  IN IF count = 0 THEN brightnessThreshold * Scale
     ELSE Max2(brightnessThreshold * Scale, mean + (stdDev * 3) \div 2)

\* the kernelSize x kernelSize neighbourhood of pixel p, clamped at the edges
Neighbourhood(p, width, height, kernelSize) ==
  LET half == kernelSize \div 2
      x == p % width
      y == p \div width IN
  {Clamp(y + ky, 0, height - 1) * width + Clamp(x + kx, 0, width - 1) :
     ky \in (0 - half)..half, kx \in (0 - half)..half}

\* a dilation over the pixel and its four neighbours only
dilateCross(mask, width, height, kernelSize) ==
  [p \in DOMAIN mask |->
     SetMax({mask[n] : n \in {m \in Neighbourhood(p, width, height, kernelSize) :
                                 m % width = p % width \/ m \div width = p \div width}})]
\* dilate(mask, width, height, kernelSize)
dilate(mask, width, height, kernelSize) ==
  [p \in DOMAIN mask |-> SetMax({mask[n] : n \in Neighbourhood(p, width, height, kernelSize)})]

\* erode(mask, width, height, kernelSize)
erode(mask, width, height, kernelSize) ==
  [p \in DOMAIN mask |-> SetMin({mask[n] : n \in Neighbourhood(p, width, height, kernelSize)})]

\* the 4-connected neighbours of the pixels in S that lie inside the frame
Adjacent(S, width, height) ==
  {p - 1 : p \in {r \in S : r % width > 0}}
    \cup {p + 1 : p \in {r \in S : r % width < width - 1}}
    \cup {p - width : p \in {r \in S : r \div width > 0}}
    \cup {p + width : p \in {r \in S : r \div width < height - 1}}

\* the breadth-first search of floodFill: pixels holds what has been queued
RECURSIVE Fill(_, _, _, _, _, _)
Fill(mask, visited, width, height, pixels, frontier) ==
  IF frontier = {} THEN pixels
  ELSE LET next == {n \in Adjacent(frontier, width, height) :
                      mask[n] = 255 /\ n \notin visited /\ n \notin pixels} IN
       Fill(mask, visited, width, height, pixels \cup next, next)

\* floodFill(mask, visited, width, height, startX, startY): the pixels of the
\* component of the start pixel (as a set: their order is not used)
floodFill(mask, visited, width, height, startX, startY) ==
  Fill(mask, visited, width, height, {startY * width + startX}, {startY * width + startX})

\* the scan with a later component replacing the largest one when it is as
\* large
RECURSIVE LargestFromLast(_, _, _, _, _)
LargestFromLast(mask, width, height, visited, largest) ==
  LET starts == {p \in DOMAIN mask : mask[p] = 255 /\ p \notin visited} IN
  IF starts = {} THEN largest
  ELSE LET idx == SetMin(starts)
           found == floodFill(mask, visited, width, height, idx % width, idx \div width) IN
       LargestFromLast(mask, width, height, visited \cup found,
                       IF Cardinality(found) >= Cardinality(largest) THEN found
                       ELSE largest)

\* the scan of findLargestBlob: the next start is the first pixel in scan
\* order that is set and not visited; largest = {} is null
RECURSIVE LargestFrom(_, _, _, _, _)
LargestFrom(mask, width, height, visited, largest) ==
  LET starts == {p \in DOMAIN mask : mask[p] = 255 /\ p \notin visited} IN
  IF starts = {} THEN largest
  ELSE LET idx == SetMin(starts)
           found == floodFill(mask, visited, width, height, idx % width, idx \div width) IN
       LargestFrom(mask, width, height, visited \cup found,
                   IF Cardinality(found) > Cardinality(largest) THEN found ELSE largest)

\* findLargestBlob(mask, width, height): a later component replaces the
\* largest one only if it is strictly larger
findLargestBlob(mask, width, height) == LargestFrom(mask, width, height, {}, {})

\* refineBoundingBox(diffMap, width, height, minX, minY, maxX, maxY)
refineBoundingBox(data, width, height, minX, minY, maxX, maxY) ==
  LET padding == 5
      edgeThreshold == 20
      searchMinX == Max2(0, minX - padding)
      searchMaxX == Min2(width - 1, maxX + padding)
      searchMinY == Max2(0, minY - padding)
      searchMaxY == Min2(height - 1, maxY + padding)
      edge == {p \in DOMAIN data :
                 /\ p % width \in searchMinX..searchMaxX
                 /\ p \div width \in searchMinY..searchMaxY
                 /\ data[p] > edgeThreshold * Scale}
  IN [minX |-> SetMin({maxX} \cup {p % width : p \in edge}),
      maxX |-> SetMax({minX} \cup {p % width : p \in edge}),
      minY |-> SetMin({maxY} \cup {p \div width : p \in edge}),
      maxY |-> SetMax({minY} \cup {p \div width : p \in edge})]

\* normalized coordinates are counted in units of 1 / Unit(width, height)
Unit(width, height) == 200 * width * height

\* normalizeRectToSquare(rect, width, height), rect in pixels
normalizeRectToSquare(rect, width, height) ==
  IF width >= height
    THEN [x |-> rect.x * 200 * height,
          y |-> rect.y * 200 * height + (width - height) * 100 * height,
          width |-> rect.width * 200 * height,
          height |-> rect.height * 200 * height]
    ELSE [x |-> rect.x * 200 * width + (height - width) * 100 * width,
          y |-> rect.y * 200 * width,
          width |-> rect.width * 200 * width,
          height |-> rect.height * 200 * width]

\* normalizePointToSquare(x, y, width, height), x and y in hundredths of a pixel
normalizePointToSquare(x, y, width, height) ==
  IF width >= height
    THEN [x |-> x * 2 * height, y |-> y * 2 * height + (width - height) * 100 * height]
    ELSE [x |-> x * 2 * width + (height - width) * 100 * width, y |-> y * 2 * width]

\* pixel coordinates computed from normalized ones are counted in units of
\* 1 / PixelUnit(width, height)
PixelUnit(width, height) == 200 * Min2(width, height)

\* denormalizeRectFromSquare with the landscape branch taken for every frame
denormalizeRectFromSquareLandscape(rect, width, height) ==
  [x |-> rect.x, y |-> rect.y - (width - height) * 100 * height,
   width |-> rect.width, height |-> rect.height]

\* denormalizeRectFromSquare(rect, width, height)
denormalizeRectFromSquare(rect, width, height) ==
  IF width >= height
    THEN [x |-> rect.x, y |-> rect.y - (width - height) * 100 * height,
          width |-> rect.width, height |-> rect.height]
    ELSE [x |-> rect.x - (height - width) * 100 * width, y |-> rect.y,
          width |-> rect.width, height |-> rect.height]

\* clampRect without the lower limits
clampRectUpper(rect, unit) ==
  [x |-> Min2(rect.x, unit),
   y |-> Min2(rect.y, unit),
   width |-> Min2(rect.width, (maxNormalizedArea * unit) \div 100),
   height |-> Min2(rect.height, (maxNormalizedArea * unit) \div 100)]

\* clampRect(rect), rect in units of 1 / unit
clampRect(rect, unit) ==
  [x |-> Min2(Max2(rect.x, 0), unit),
   y |-> Min2(Max2(rect.y, 0), unit),
   width |-> Min2(Max2(rect.width, (minNormalizedArea * unit) \div 100),
                  (maxNormalizedArea * unit) \div 100),
   height |-> Min2(Max2(rect.height, (minNormalizedArea * unit) \div 100),
                   (maxNormalizedArea * unit) \div 100)]

\* null
NoDetection == [found |-> FALSE]

\* steps 7 and 8 with every pixel of the blob given the weight 1
ScreenDetectionUnweighted(blurred, largest, width, height) ==
       LET minX == SetMin({p % width : p \in largest})
           maxX == SetMax({p % width : p \in largest})
           minY == SetMin({p \div width : p \in largest})
           maxY == SetMax({p \div width : p \in largest})
           last == width * height - 1
           weight(p) == IF p \in largest THEN 1 ELSE 0
           totalX == Sum([p \in 0..last |-> (p % width) * weight(p)], 0, last)
           totalY == Sum([p \in 0..last |-> (p \div width) * weight(p)], 0, last)
           totalWeight == Sum([p \in 0..last |-> weight(p)], 0, last)
           refinedBox == refineBoundingBox(blurred, width, height, minX, minY, maxX, maxY)
       IN [found |-> TRUE,
           center |-> normalizePointToSquare((totalX * 100) \div totalWeight,
                                             (totalY * 100) \div totalWeight,
                                             width, height),
           area |-> clampRect(normalizeRectToSquare(
                                [x |-> refinedBox.minX, y |-> refinedBox.minY,
                                 width |-> refinedBox.maxX - refinedBox.minX,
                                 height |-> refinedBox.maxY - refinedBox.minY],
                                width, height),
                              Unit(width, height)),
           pixelCount |-> Cardinality(largest)]
\* detectScreenArea, steps 7 and 8 and the value returned: the bounding box,
\* the weighted centroid (in hundredths of a pixel) and the normalization
ScreenDetection(blurred, largest, width, height) ==
       LET minX == SetMin({p % width : p \in largest})
           maxX == SetMax({p % width : p \in largest})
           minY == SetMin({p \div width : p \in largest})
           maxY == SetMax({p \div width : p \in largest})
           last == width * height - 1
           weight(p) == IF p \in largest THEN blurred[p] ELSE 0
           totalX == Sum([p \in 0..last |-> (p % width) * weight(p)], 0, last)
           totalY == Sum([p \in 0..last |-> (p \div width) * weight(p)], 0, last)
           totalWeight == Sum([p \in 0..last |-> weight(p)], 0, last)
           refinedBox == refineBoundingBox(blurred, width, height, minX, minY, maxX, maxY)
           centerX == IF totalWeight > 0 THEN (totalX * 100) \div totalWeight
                      ELSE (minX + maxX) * 50
           centerY == IF totalWeight > 0 THEN (totalY * 100) \div totalWeight
                      ELSE (minY + maxY) * 50
           normalizedArea ==
             clampRect(normalizeRectToSquare([x |-> refinedBox.minX, y |-> refinedBox.minY,
                                              width |-> refinedBox.maxX - refinedBox.minX,
                                              height |-> refinedBox.maxY - refinedBox.minY],
                                             width, height),
                       Unit(width, height))
       IN [found |-> TRUE,
           center |-> normalizePointToSquare(centerX, centerY, width, height),
           area |-> normalizedArea,
           pixelCount |-> Cardinality(largest)]

\* the size test of step 6 with the comparison <= in place of <
detectScreenAreaResultAtMost(blurred, largest, width, height) ==
  IF largest = {} \/ Cardinality(largest) <= minBlobSize THEN NoDetection
  ELSE ScreenDetection(blurred, largest, width, height)

\* detectScreenArea from step 6 on: null when there is no blob or the blob
\* has fewer than minBlobSize pixels
detectScreenAreaResult(blurred, largest, width, height) ==
  IF largest = {} \/ Cardinality(largest) < minBlobSize THEN NoDetection
  ELSE ScreenDetection(blurred, largest, width, height)

\* a rectangle of brightness lum
Rect(x, y, w, h, lum) == [x |-> x, y |-> y, width |-> w, height |-> h, lum |-> lum]
Inside(r, x, y) == x \in r.x..(r.x + r.width - 1) /\ y \in r.y..(r.y + r.height - 1)
PixelsOf(r, width) == {y * width + x : x \in r.x..(r.x + r.width - 1),
                                       y \in r.y..(r.y + r.height - 1)}

\* new ImageData(width, height) holding data
ImageData(width, height, data) == [width |-> width, height |-> height, data |-> data]

\* the pixels of a frame with the rectangles rs painted over black
Paint(rs, width, height) ==
  [p \in 0..(width * height - 1) |->
     LET over == {k \in 1..Len(rs) : Inside(rs[k], p % width, p \div width)} IN
     IF over = {} THEN 0 ELSE rs[SetMax(over)].lum]

\* the synthetic probe frames: one uniform rectangle, or two disjoint ones
SingleFixtures ==
  {<<Rect(o[1], o[2], s[1], s[2], l)>> :
     o \in {<<0, 1>>, <<1, 1>>, <<4, 1>>}, s \in {<<7, 7>>, <<8, 8>>, <<12, 8>>},
     l \in {255, 200}}
PairFixtures ==
  {<<Rect(a[1], a[2], a[3], a[4], la), Rect(b[1], b[2], b[3], b[4], lb)>> :
     a \in {<<0, 1, 7, 7>>, <<1, 1, 8, 8>>}, la \in {255, 200},
     b \in {<<10, 0, 6, 10>>, <<11, 0, 5, 10>>}, lb \in {255, 60}}
\* a faint line one pixel wide along the last column (landscape) or the last
\* row (portrait) of a larger frame, and a fainter area at the opposite side
EdgeFixtures ==
  {[width |-> EdgeW, height |-> EdgeH,
    rects |-> <<Rect(EdgeW - 1, 1, 1, EdgeH - 2, 62), Rect(0, 0, 30, EdgeH, 10)>>],
   [width |-> EdgeH, height |-> EdgeW,
    rects |-> <<Rect(1, EdgeW - 1, EdgeH - 2, 1, 62), Rect(0, 0, EdgeH, 30, 10)>>]}

\* a faint stripe two pixels wide, one pixel away from the first column of
\* the larger frame, and a fainter area at the opposite side
BorderFixtures ==
  {[width |-> EdgeW, height |-> EdgeH,
    rects |-> <<Rect(1, 1, 2, EdgeH - 2, 64), Rect(EdgeW - 30, 0, 30, EdgeH, 10)>>]}

\* a fixture is a frame size and the rectangles (none: a black frame)
Fixtures ==
  {[width |-> DetW, height |-> DetH, rects |-> f] :
     f \in {g \in SingleFixtures \cup PairFixtures \cup {<<>>} :
              \A k \in 1..Len(g) : g[k].x + g[k].width <= DetW
                                    /\ g[k].y + g[k].height <= DetH}}
    \cup EdgeFixtures \cup BorderFixtures

\* Step 1 without the subtraction of the reference frame's luminance
DetDiffNoReference ==
  /\ detPc = "input"
  /\ detPc' = "diff"
  /\ diffMap' = [p \in DOMAIN activeFrame.data |->
                   Luminance(activeFrame.data[p], activeFrame.data[p],
                             activeFrame.data[p])]
  /\ UNCHANGED <<blackedOut, controllerScreens, emitted, protocolVars, callVars, playVars, rects, baseFrame, activeFrame, blurredDiff, threshold,
                 binaryMask, processedMask, blob, returned>>

\* Step 1: the difference map of the luminances
DetDiff ==
  /\ detPc = "input"
  /\ detPc' = "diff"
  /\ diffMap' = [p \in DOMAIN activeFrame.data |->
                   LET activeLum == Luminance(activeFrame.data[p], activeFrame.data[p],
                                              activeFrame.data[p])
                       baseLum == Luminance(baseFrame.data[p], baseFrame.data[p],
                                            baseFrame.data[p]) IN
                   Max2(0, activeLum - baseLum)]
  /\ UNCHANGED <<blackedOut, controllerScreens, emitted, protocolVars, callVars, playVars, rects, baseFrame, activeFrame, blurredDiff, threshold,
                 binaryMask, processedMask, blob, returned>>

\* Step 2: the Gaussian blur
DetBlur ==
  /\ detPc = "diff"
  /\ detPc' = "blur"
  /\ blurredDiff' = gaussianBlur(diffMap, baseFrame.width, baseFrame.height,
                                 gaussianBlurRadius)
  /\ UNCHANGED <<blackedOut, controllerScreens, emitted, protocolVars, callVars, playVars, rects, baseFrame, activeFrame, diffMap, threshold,
                 binaryMask, processedMask, blob, returned>>

\* Steps 3 and 4: the adaptive threshold and the binary mask
DetThreshold ==
  /\ detPc = "blur"
  /\ detPc' = "mask"
  /\ threshold' = calculateAdaptiveThreshold(blurredDiff, baseFrame.width, baseFrame.height)
  /\ binaryMask' = [p \in DOMAIN blurredDiff |->
                      IF blurredDiff[p] > threshold' THEN 255 ELSE 0]
  /\ UNCHANGED <<blackedOut, controllerScreens, emitted, protocolVars, callVars, playVars, rects, baseFrame, activeFrame, diffMap, blurredDiff,
                 processedMask, blob, returned>>

\* Step 5: dilate, then erode
DetMorphology ==
  /\ detPc = "mask"
  /\ detPc' = "morphology"
  /\ processedMask' = erode(dilate(binaryMask, baseFrame.width, baseFrame.height,
                                   morphologyKernel),
                            baseFrame.width, baseFrame.height, morphologyKernel)
  /\ UNCHANGED <<blackedOut, controllerScreens, emitted, protocolVars, callVars, playVars, rects, baseFrame, activeFrame, diffMap, blurredDiff,
                 threshold, binaryMask, blob, returned>>

\* Step 6: the largest connected component
DetBlob ==
  /\ detPc = "morphology"
  /\ detPc' = "blob"
  /\ blob' = findLargestBlob(processedMask, baseFrame.width, baseFrame.height)
  /\ UNCHANGED <<blackedOut, controllerScreens, emitted, protocolVars, callVars, playVars, rects, baseFrame, activeFrame, diffMap, blurredDiff,
                 threshold, binaryMask, processedMask, returned>>

\* Steps 7 and 8 and the return
DetReturn ==
  /\ detPc = "blob"
  /\ detPc' = "done"
  /\ returned' = detectScreenAreaResult(blurredDiff, blob, baseFrame.width, baseFrame.height)
  /\ UNCHANGED <<blackedOut, controllerScreens, emitted, protocolVars, callVars, playVars, rects, baseFrame, activeFrame, diffMap, blurredDiff,
                 threshold, binaryMask, processedMask, blob>>

\* ------------------------------------------------------------ specification

\* the controller has registered and no screen has connected yet; init() has
\* run updateControls()
InitProtocol ==
  /\ connectedDevices = <<>>
  /\ lastState = NoColor
  /\ nextId = 1
  /\ c2s = <<>>
  /\ s2c = <<>>
  /\ webcamPc = "none"
  /\ webcamStream = FALSE
  /\ analysisCtx = FALSE
  /\ screens = <<>>
  /\ isScanning = FALSE
  /\ isAnimating = FALSE
  /\ audioBeatEnabled = FALSE
  /\ animationFrame = FALSE
  /\ detectedScreens = <<>>
  /\ lastColors = NoColors
  /\ scanBtn = TRUE
  /\ playBtn = TRUE
  /\ stopBtn = TRUE
  /\ bangTimers = 0
  /\ scanPc = "idle"
  /\ scanI = 0
  /\ scanScreen = 0
  /\ scanFrames = 0
  /\ scanNo = 0
  /\ scanLog = <<>>
  /\ scanStart = {}
  /\ stopRequested = FALSE
  /\ clock = 0
  /\ lastFrameTime = 0
  /\ pendingFrames = 0
  /\ sent = NoColors
  /\ finalColors = NoColors
  /\ lastTick = NoTick
  /\ oneShotRunning = FALSE
  /\ oneShots = <<>>
  /\ audioPc = "none"
  /\ audioAnalyser = FALSE
  /\ audioRaf = FALSE
  /\ audioTicks = 0
  /\ lastBeatAt = 0
  /\ emitted = <<>>
  /\ blackedOut = FALSE
  /\ controllerScreens = [sock \in 1..MaxSockets |-> <<>>]

\* no call of detectScreenArea is under way
\* no pure function is being called
NoCall ==
  /\ callPc = "none"
  /\ callArgs = <<>>
  /\ callResult = <<>>

Init ==
  /\ InitProtocol
  /\ detPc = "none"
  /\ rects = <<>>
  /\ baseFrame = <<>>
  /\ activeFrame = <<>>
  /\ diffMap = <<>>
  /\ blurredDiff = <<>>
  /\ threshold = 0
  /\ binaryMask = <<>>
  /\ processedMask = <<>>
  /\ blob = {}
  /\ returned = NoDetection
  /\ NoCall

Next ==
  \/ RelayHandle
  \/ ScreenRegister
  \/ ScreenDisconnect
  \/ ScreenList
  \/ StartWebcam
  \/ GetUserMediaRejected
  \/ GetUserMediaResolved
  \/ PlayResolved
  \/ PlayRejected
  \/ StartAnimation
  \/ Animate
  \/ StopAnimation
  \/ Blackout
  \/ TriggerBang
  \/ BangTimer
  \/ StartScan
  \/ ScanCaptureThrows
  \/ ScanSettled
  \/ ScanRefSleep
  \/ ScanFlashHeld
  \/ ScanProbeSleep
  \/ ScanCooldown

Spec == Init /\ [][Next]_vars

\* startScan() invoked by a caller other than the scan button, whose disabled
\* state keeps a click away while screens is empty
StartScanCall ==
  /\ scanPc \in {"idle", "threw"}
  /\ scanNo < MaxScans
  /\ startScan

SpecCall == Init /\ [][Next \/ StartScanCall]_vars

\* ---------------------------------------------------------------- playback

\* no detection and no call of a pure function is under way
NoDetectCall ==
  /\ detPc = "none"
  /\ rects = <<>>
  /\ baseFrame = <<>>
  /\ activeFrame = <<>>
  /\ diffMap = <<>>
  /\ blurredDiff = <<>>
  /\ threshold = 0
  /\ binaryMask = <<>>
  /\ processedMask = <<>>
  /\ blob = {}
  /\ returned = NoDetection
  /\ NoCall

\* no frame callback has run and the audio mode was never entered
NoPlayback ==
  /\ isAnimating = FALSE
  /\ audioBeatEnabled = FALSE
  /\ animationFrame = FALSE
  /\ detectedScreens = <<>>
  /\ lastColors = NoColors
  /\ bangTimers = 0
  /\ clock = 0
  /\ lastFrameTime = 0
  /\ pendingFrames = 0
  /\ sent = NoColors
  /\ finalColors = NoColors
  /\ lastTick = NoTick
  /\ oneShotRunning = FALSE
  /\ oneShots = <<>>
  /\ audioPc = "none"
  /\ audioAnalyser = FALSE
  /\ audioRaf = FALSE
  /\ audioTicks = 0
  /\ lastBeatAt = 0
  /\ emitted = <<>>
  /\ blackedOut = FALSE
  /\ controllerScreens = [sock \in 1..MaxSockets |-> <<>>]

\* what startScan logs for the screen id at loop index i when it is detected
DetectedLog(id, i) ==
  <<<<"flash", id, i>>, Capture(id, i), Capture(id, i), Capture(id, i),
    <<"reportPosition", id, i>>, <<"off", id, i>>, <<"cooldown", id, i>>>>

\* the state after a scan that has detected the two screens, every message
\* delivered
InitScanned ==
  /\ connectedDevices = [id \in Ids |-> [socketId |-> id, position |-> 1, color |-> Black]]
  /\ lastState = Black
  /\ nextId = MaxScreens + 1
  /\ c2s = <<>>
  /\ s2c = <<>>
  /\ webcamPc = "ready"
  /\ webcamStream = TRUE
  /\ analysisCtx = TRUE
  /\ screens = [id \in Ids |-> [socketId |-> id, position |-> 1]]
  /\ isScanning = FALSE
  /\ scanBtn = FALSE
  /\ playBtn = FALSE
  /\ stopBtn = TRUE
  /\ scanPc = "idle"
  /\ scanI = 1
  /\ scanScreen = 2
  /\ scanFrames = 0
  /\ scanNo = 1
  /\ scanLog = <<<<"clearPositions", 0, 0>>, <<"allOff", 0, 0>>, <<"settle", 0, 0>>,
                 Capture(0, 0), Capture(0, 0), Capture(0, 0)>>
               \o DetectedLog(1, 0) \o DetectedLog(2, 1) \o <<<<"complete", 0, 2>>>>
  /\ scanStart = Ids
  /\ stopRequested = FALSE

\* the state after the two screens have registered, before the webcam is
\* started: no screen has a position
InitRegistered ==
  /\ connectedDevices = [id \in Ids |-> [socketId |-> id, position |-> 0, color |-> NoColor]]
  /\ lastState = NoColor
  /\ nextId = MaxScreens + 1
  /\ c2s = <<>>
  /\ s2c = <<>>
  /\ webcamPc = "none"
  /\ webcamStream = FALSE
  /\ analysisCtx = FALSE
  /\ screens = [id \in Ids |-> [socketId |-> id, position |-> 0]]
  /\ isScanning = FALSE
  /\ scanBtn = TRUE
  /\ playBtn = TRUE
  /\ stopBtn = TRUE
  /\ scanPc = "idle"
  /\ scanI = 0
  /\ scanScreen = 0
  /\ scanFrames = 0
  /\ scanNo = 0
  /\ scanLog = <<>>
  /\ scanStart = {}
  /\ stopRequested = FALSE

InitPlay ==
  /\ InitScanned \/ InitRegistered
  /\ NoPlayback
  /\ NoDetectCall

\* the playback with its timing: no screen connects or leaves, no scan runs,
\* and the relay handles each message before the controller's next step
NextPlay ==
  \/ RelayHandle
  \/ c2s = <<>> /\ StartAnimation
  \/ c2s = <<>> /\ AnimateTick
  \/ c2s = <<>> /\ StopAnimation
  \/ c2s = <<>> /\ Blackout
  \/ c2s = <<>> /\ TriggerBang
  \/ c2s = <<>> /\ BangTimer
  \/ c2s = <<>> /\ StartAudioBeatMode
  \/ c2s = <<>> /\ AudioResolved
  \/ c2s = <<>> /\ AudioRejected
  \/ c2s = <<>> /\ AudioTick
  \/ c2s = <<>> /\ OneShotFrame
  \/ c2s = <<>> /\ StopAudioBeatMode

SpecPlay == InitPlay /\ [][NextPlay]_vars

\* detectScreenArea(baseFrame, activeFrame) called with a synthetic probe
\* frame and a reference frame that is black or the probe frame itself
InitDetect ==
  /\ InitProtocol
  /\ detPc = "input"
  /\ \E fx \in Fixtures :
       /\ rects = fx.rects
       /\ activeFrame = ImageData(fx.width, fx.height, Paint(fx.rects, fx.width, fx.height))
       /\ baseFrame \in {ImageData(fx.width, fx.height, Paint(<<>>, fx.width, fx.height)),
                         ImageData(fx.width, fx.height, Paint(fx.rects, fx.width, fx.height))}
  /\ diffMap = <<>>
  /\ blurredDiff = <<>>
  /\ threshold = 0
  /\ binaryMask = <<>>
  /\ processedMask = <<>>
  /\ blob = {}
  /\ returned = NoDetection
  /\ NoCall

NextDetect ==
  \/ DetDiff
  \/ DetBlur
  \/ DetThreshold
  \/ DetMorphology
  \/ DetBlob
  \/ DetReturn

SpecDetect == InitDetect /\ [][NextDetect]_vars

\* --- steps 1 and 2 on small frames

BlurW == 6           \* longer side of the frame
BlurH == 2           \* shorter side of the frame
\* the reference frame is uniform: black or gray
ReferenceLevels == {0, 100}

\* a probe frame of black and white pixels, some darker than the reference
InitBlur ==
  /\ InitProtocol
  /\ detPc = "input"
  /\ rects = <<>>
  /\ \E size \in {<<BlurW, BlurH>>, <<BlurH, BlurW>>} :
       /\ activeFrame \in {ImageData(size[1], size[2], data) :
                             data \in [0..(BlurW * BlurH - 1) -> {0, 255}]}
       /\ baseFrame \in {ImageData(size[1], size[2], [p \in 0..(BlurW * BlurH - 1) |-> level]) :
                           level \in ReferenceLevels}
  /\ diffMap = <<>>
  /\ blurredDiff = <<>>
  /\ threshold = 0
  /\ binaryMask = <<>>
  /\ processedMask = <<>>
  /\ blob = {}
  /\ returned = NoDetection
  /\ NoCall

NextBlur ==
  \/ DetDiff
  \/ DetBlur

SpecBlur == InitBlur /\ [][NextBlur]_vars
\* --- a second scan

\* click on scanBtn after the first scan has completed
StartScanAgain ==
  /\ ~scanBtn
  /\ scanPc = "idle"
  /\ scanNo = 1
  /\ startScan

\* the first scan has detected the two screens
InitRescan ==
  /\ InitScanned
  /\ NoPlayback
  /\ NoDetectCall

NextRescan ==
  \/ RelayHandle
  \/ ScreenDisconnect
  \/ ScreenList
  \/ StartScanAgain
  \/ ScanSettled
  \/ ScanRefSleep
  \/ ScanFlashHeld
  \/ ScanProbeSleep
  \/ ScanCooldown

SpecRescan == InitRescan /\ [][NextRescan]_vars
\* ---------------------------------------------- relay in full, specification

\* the relay has started and no socket has connected
InitRelay ==
  /\ InitProtocol
  /\ NoDetectCall

NextRelay ==
  \/ OnRegister
  \/ OnReportPosition
  \/ OnSendColor
  \/ OnBroadcastColor
  \/ OnClearPositions
  \/ OnDisconnect

SpecRelay == InitRelay /\ [][NextRelay]_vars

\* --- the relay in full and the controller pages

\* every screenList the latest handler emitted has reached its page
Delivered ==
  \A k \in 1..Len(emitted) :
    emitted[k].event = "screenList"
      => controllerScreens[emitted[k].to] = emitted[k].data.screens

\* socket.on('screenList') of the controller pages: screens = data, for each
\* screenList in flight, in the order emitted
OnScreenList ==
  /\ ~Delivered
  /\ controllerScreens' =
       [sock \in 1..MaxSockets |->
          LET mine == SelectSeq(emitted, LAMBDA m : m.event = "screenList" /\ m.to = sock)
          IN IF mine = <<>> THEN controllerScreens[sock]
             ELSE mine[Len(mine)].data.screens]
  /\ UNCHANGED <<protocolVars, detVars, callVars, playVars, emitted, blackedOut>>

\* clients register, report positions, clear them and disconnect; what a
\* handler emits is delivered before the relay handles the next event
NextLists ==
  \/ Delivered /\ OnRegister
  \/ Delivered /\ OnReportPosition
  \/ Delivered /\ OnClearPositions
  \/ Delivered /\ OnDisconnect
  \/ OnScreenList

SpecLists == InitRelay /\ [][NextLists]_vars
\* ------------------------------------------- pure functions, called alone

\* no scan, no playback and no detection is going on
InitIdle ==
  /\ InitProtocol
  /\ detPc = "none"
  /\ rects = <<>>
  /\ baseFrame = <<>>
  /\ activeFrame = <<>>
  /\ diffMap = <<>>
  /\ blurredDiff = <<>>
  /\ threshold = 0
  /\ binaryMask = <<>>
  /\ processedMask = <<>>
  /\ blob = {}
  /\ returned = NoDetection

\* the call returns value
Return(value) ==
  /\ callPc = "call"
  /\ callPc' = "return"
  /\ callResult' = value
  /\ UNCHANGED <<blackedOut, controllerScreens, emitted, protocolVars, detVars, playVars, callArgs>>

\* --- findLargestBlob

MaskW == 4           \* mask width
MaskH == 3           \* mask height

\* the binary masks (Uint8Array of 0 and 255) of width x height pixels
Masks(width, height) == [0..(width * height - 1) -> {0, 255}]

\* const directions = [[-1, 0], [1, 0], [0, -1], [0, 1]]
directions == <<<<-1, 0>>, <<1, 0>>, <<0, -1>>, <<0, 1>>>>

\* floodFill's loop over the directions from k on, for the pixel (x, y) taken
\* from the queue; st is [visited, queue]
RECURSIVE Visit(_, _, _, _, _, _, _)
Visit(mask, width, height, x, y, k, st) ==
  IF k > Len(directions) THEN st
  ELSE LET nx == x + directions[k][1]
           ny == y + directions[k][2]
           idx == ny * width + nx
           push == /\ nx >= 0 /\ nx < width /\ ny >= 0 /\ ny < height
                   /\ mask[idx] = 255 /\ idx \notin st.visited IN
       Visit(mask, width, height, x, y, k + 1,
             IF push THEN [visited |-> st.visited \cup {idx}, queue |-> Append(st.queue, idx)]
             ELSE st)

\* floodFill's while loop: queue.shift(), pixels.push, the four neighbours
RECURSIVE Drain(_, _, _, _, _)
Drain(mask, width, height, pixels, st) ==
  IF st.queue = <<>> THEN [pixels |-> pixels, visited |-> st.visited]
  ELSE LET idx == Head(st.queue) IN
       Drain(mask, width, height, Append(pixels, idx),
             Visit(mask, width, height, idx % width, idx \div width, 1,
                   [visited |-> st.visited, queue |-> Tail(st.queue)]))

\* floodFill statement by statement: the pixels in the order they are pushed
\* (a pixel {x, y} is written y * width + x) and the visited array afterwards
floodFillPixels(mask, visited, width, height, startX, startY) ==
  Drain(mask, width, height, <<>>,
        [visited |-> visited \cup {startY * width + startX},
         queue |-> <<startY * width + startX>>])

\* findLargestBlob's two loops from pixel idx on; largestBlob = <<>> is null
RECURSIVE ScanFrom(_, _, _, _, _, _)
ScanFrom(mask, width, height, idx, visited, largestBlob) ==
  IF idx = width * height THEN largestBlob
  ELSE IF mask[idx] = 255 /\ idx \notin visited
    THEN LET filled == floodFillPixels(mask, visited, width, height,
                                      idx % width, idx \div width) IN
         ScanFrom(mask, width, height, idx + 1, filled.visited,
                  IF Len(filled.pixels) > Len(largestBlob) THEN filled.pixels
                  ELSE largestBlob)
    ELSE ScanFrom(mask, width, height, idx + 1, visited, largestBlob)

\* findLargestBlob(mask, width, height) statement by statement: blob.pixels
findLargestBlobPixels(mask, width, height) == ScanFrom(mask, width, height, 0, {}, <<>>)

\* findLargestBlob is called with a mask, landscape or portrait
InitBlob ==
  /\ InitIdle
  /\ callPc = "call"
  /\ \E size \in {<<MaskW, MaskH>>, <<MaskH, MaskW>>} :
       \E mask \in Masks(size[1], size[2]) :
         callArgs = [mask |-> mask, width |-> size[1], height |-> size[2]]
  /\ callResult = <<>>

\* the call returns: pixels is blob.pixels, blob the same pixels as the set
\* the detection steps work with
CallFindLargestBlob ==
  Return([pixels |-> findLargestBlobPixels(callArgs.mask, callArgs.width, callArgs.height),
          blob |-> findLargestBlob(callArgs.mask, callArgs.width, callArgs.height)])

NextBlob == CallFindLargestBlob

SpecBlob == InitBlob /\ [][NextBlob]_vars

\* --- clampRect

\* field values in units of 1 / Unit(1, 1): below 0, around the limits 0.02
\* and 0.65 of the sizes, around 1 and above it
ClampValues == {-100, -1, 0, 3, 4, 5, 129, 130, 131, 199, 200, 201, 300}

\* clampRect is called with any rectangle
InitClamp ==
  /\ InitIdle
  /\ callPc = "call"
  /\ callArgs \in [x : ClampValues, y : ClampValues,
                    width : ClampValues, height : ClampValues]
  /\ callResult = <<>>

\* the call returns; again is the result of clamping what was returned
CallClampRect ==
  Return(LET clamped == clampRect(callArgs, Unit(1, 1)) IN
         [rect |-> clamped, again |-> clampRect(clamped, Unit(1, 1))])

NextClamp == CallClampRect

SpecClamp == InitClamp /\ [][NextClamp]_vars

\* --- normalizeRectToSquare, normalizePointToSquare, denormalizeRectFromSquare

\* frame widths and heights: landscape, square and portrait frames
SquareSizes == {2, 3, 5, 8}
\* rectangle positions and sizes in pixels, outside the frame included
SquarePositions == {-1, 0, 1, 4}
SquareExtents == {0, 1, 3}

\* the helpers are called with a pixel rectangle and a frame size
InitSquare ==
  /\ InitIdle
  /\ callPc = "call"
  /\ callArgs \in [rect : [x : SquarePositions, y : SquarePositions,
                           width : SquareExtents, height : SquareExtents],
                    width : SquareSizes, height : SquareSizes]
  /\ callResult = <<>>

\* the calls return: the rectangle normalized, that denormalized again, and
\* the rectangle's corner normalized as a point
CallSquare ==
  Return(LET normalized == normalizeRectToSquare(callArgs.rect, callArgs.width,
                                                 callArgs.height) IN
         [normalized |-> normalized,
          denormalized |-> denormalizeRectFromSquare(normalized, callArgs.width,
                                                     callArgs.height),
          point |-> normalizePointToSquare(100 * callArgs.rect.x, 100 * callArgs.rect.y,
                                           callArgs.width, callArgs.height)])

NextSquare == CallSquare

SpecSquare == InitSquare /\ [][NextSquare]_vars

\* --- averageFrames

MaxFrames == 3       \* frames averaged in one call

\* averageFrames with Math.floor in place of Math.round
averageFramesFloor(frames) ==
  ImageData(frames[1].width, frames[1].height,
            [i \in DOMAIN frames[1].data |->
               Sum([f \in 1..Len(frames) |-> frames[f].data[i]], 1, Len(frames))
                 \div Len(frames)])

\* averageFrames(frames): Math.round(sum / numFrames) is the integer part of
\* sum / numFrames + 1/2; the values stay within the Uint8ClampedArray's range
averageFrames(frames) ==
  LET numFrames == Len(frames) IN
  ImageData(frames[1].width, frames[1].height,
            [i \in DOMAIN frames[1].data |->
               LET sum == Sum([f \in 1..numFrames |-> frames[f].data[i]], 1, numFrames) IN
               Clamp((2 * sum + numFrames) \div (2 * numFrames), 0, 255)])

\* the frames of one opaque pixel (R, G, B, A) with channels 0, 1 or 255
PixelFrames ==
  {ImageData(1, 1, data) : data \in {d \in [0..3 -> {0, 1, 255}] : d[3] = 255}}

\* averageFrames is called with 1 to MaxFrames frames of the same size
InitAverage ==
  /\ InitIdle
  /\ callPc = "call"
  /\ \E n \in 1..MaxFrames : callArgs \in [1..n -> PixelFrames]
  /\ callResult = <<>>

CallAverageFrames == Return(averageFrames(callArgs))

NextAverage == CallAverageFrames

SpecAverage == InitAverage /\ [][NextAverage]_vars

\* --- sampleAreaColor

canvasSize == 200    \* CONFIG.canvasSize: the virtual canvas is canvasSize x canvasSize

\* Math.exp(-k / 10) in units of 1 / 10000, k = 0..20
ExpTenth == <<10000, 9048, 8187, 7408, 6703, 6065, 5488, 4966, 4493, 4066, 3679, 3329,
              3012, 2725, 2466, 2231, 2019, 1827, 1653, 1496, 1353>>

\* Math.round(num / den) for num >= 0 and den > 0
RoundDiv(num, den) == (2 * num + den) \div (2 * den)

\* ctx.getImageData(sx, sy, sw, sh): the pixels of the rectangle; those
\* outside the canvas are transparent black
getImageData(canvas, sx, sy, sw, sh) ==
  [q \in (0..(sw - 1)) \X (0..(sh - 1)) |->
     IF <<sx + q[1], sy + q[2]>> \in DOMAIN canvas THEN canvas[<<sx + q[1], sy + q[2]>>]
     ELSE [r |-> 0, g |-> 0, b |-> 0, a |-> 0]]

\* the weight Math.exp(-dist * dist) of pixel (x, y) of an areaW x areaH area,
\* dist * dist = ((2x - areaW) / areaW)^2 + ((2y - areaH) / areaH)^2 taken to
\* the nearest tenth
AreaWeight(x, y, areaW, areaH) ==
  LET num == (2 * x - areaW) * (2 * x - areaW) * areaH * areaH
             + (2 * y - areaH) * (2 * y - areaH) * areaW * areaW
      den == areaW * areaW * areaH * areaH IN
  ExpTenth[RoundDiv(10 * num, den) + 1]

\* sampleAreaColor(screen) on the virtual canvas; screen.area is <<>> (none)
\* or <<rect>>, rect and screen.position in units of 1 / unit
sampleAreaColor(screen, canvas, unit) ==
  IF screen.area # <<>>
    THEN LET normalized == clampRect(screen.area[1], unit)
             areaX == (normalized.x * canvasSize) \div unit
             areaY == (normalized.y * canvasSize) \div unit
             areaW == Max2(1, (normalized.width * canvasSize) \div unit)
             areaH == Max2(1, (normalized.height * canvasSize) \div unit)
             data == getImageData(canvas, areaX, areaY, areaW, areaH)
             cells == [k \in 0..(areaW * areaH - 1) |-> <<k % areaW, k \div areaW>>]
             weight(k) == AreaWeight(cells[k][1], cells[k][2], areaW, areaH)
             last == areaW * areaH - 1
             totalR == Sum([k \in 0..last |-> data[cells[k]].r * weight(k)], 0, last)
             totalG == Sum([k \in 0..last |-> data[cells[k]].g * weight(k)], 0, last)
             totalB == Sum([k \in 0..last |-> data[cells[k]].b * weight(k)], 0, last)
             totalWeight == Sum([k \in 0..last |-> weight(k)], 0, last)
         IN [r |-> RoundDiv(totalR, totalWeight),
             g |-> RoundDiv(totalG, totalWeight),
             b |-> RoundDiv(totalB, totalWeight)]
    ELSE LET pixelX == (screen.position.x * canvasSize) \div unit
             pixelY == (screen.position.y * canvasSize) \div unit
             pixel == getImageData(canvas, pixelX, pixelY, 1, 1)[<<0, 0>>]
         IN [r |-> pixel.r, g |-> pixel.g, b |-> pixel.b]

\* the rectangle sampleAreaColor(screen) passes to getImageData: the area in
\* canvas pixels, or the one pixel of the position
sampledRegion(screen, unit) ==
  IF screen.area # <<>>
    THEN LET normalized == clampRect(screen.area[1], unit) IN
         [x |-> (normalized.x * canvasSize) \div unit,
          y |-> (normalized.y * canvasSize) \div unit,
          width |-> Max2(1, (normalized.width * canvasSize) \div unit),
          height |-> Max2(1, (normalized.height * canvasSize) \div unit)]
    ELSE [x |-> (screen.position.x * canvasSize) \div unit,
          y |-> (screen.position.y * canvasSize) \div unit,
          width |-> 1,
          height |-> 1]
\* the virtual canvas filled with one opaque color
UniformCanvas(c) ==
  [p \in (0..(canvasSize - 1)) \X (0..(canvasSize - 1)) |->
     [r |-> c.r, g |-> c.g, b |-> c.b, a |-> 255]]

\* colors of the source
SampleColors ==
  {[r |-> 0, g |-> 0, b |-> 0], [r |-> 255, g |-> 255, b |-> 255],
   [r |-> 200, g |-> 100, b |-> 50], [r |-> 1, g |-> 2, b |-> 3]}

\* positions and sizes of stored areas in units of 1 / Unit(1, 1): 0, the
\* middle, near the far edge and 1; sizes from the minimum 0.02 up
SampleOrigins == {0, 100, 196, 197, 199, 200}
SampleExtents == {4, 6, 10}

\* the screens sampled: with a stored area, or with a position only
SampleScreens ==
  [position : [x : SampleOrigins, y : {100}],
   area : {<<>>} \cup {<<rect>> : rect \in [x : SampleOrigins, y : SampleOrigins,
                                             width : SampleExtents,
                                             height : SampleExtents]}]

\* sampleAreaColor is called while the virtual canvas shows one color
InitSample ==
  /\ InitIdle
  /\ callPc = "call"
  /\ callArgs \in [screen : SampleScreens, color : SampleColors]
  /\ callResult = <<>>

CallSampleAreaColor ==
  Return(sampleAreaColor(callArgs.screen, UniformCanvas(callArgs.color), Unit(1, 1)))

NextSample == CallSampleAreaColor

SpecSample == InitSample /\ [][NextSample]_vars

\* --- colorDiff

\* channel values: the ends of 0..255 and their neighbours
ChannelValues == {0, 1, 254, 255}

\* the colors whose channels are among ChannelValues
ChannelColors == [r : ChannelValues, g : ChannelValues, b : ChannelValues]

\* colorDiff is called with any two colors
InitColorDiff ==
  /\ InitIdle
  /\ callPc = "call"
  /\ callArgs \in ChannelColors \X ChannelColors
  /\ callResult = <<>>

\* the call returns; swapped is the result with the arguments exchanged
CallColorDiff ==
  Return([diff |-> colorDiff(callArgs[1], callArgs[2]),
          swapped |-> colorDiff(callArgs[2], callArgs[1])])

NextColorDiff == CallColorDiff

SpecColorDiff == InitColorDiff /\ [][NextColorDiff]_vars
\* --- calculateAdaptiveThreshold

StatPixels == 4      \* pixels of a blurred map
\* blurred values at and around the noise floor 5 and the configured 40
StatValues == {0, 5 * Scale, 5 * Scale + 1, brightnessThreshold * Scale,
               100 * Scale, 255 * Scale}

InitThreshold ==
  /\ InitIdle
  /\ callPc = "call"
  /\ callArgs \in {<<data>> : data \in [0..(StatPixels - 1) -> StatValues]}
  /\ callResult = <<>>

CallThreshold == Return(calculateAdaptiveThreshold(callArgs[1], StatPixels, 1))

NextThreshold == CallThreshold
SpecThreshold == InitThreshold /\ [][NextThreshold]_vars
\* --- dilate, then erode

InitClosing ==
  /\ InitIdle
  /\ callPc = "call"
  /\ \E size \in {<<MaskW, MaskH>>, <<MaskH, MaskW>>} :
       \E mask \in Masks(size[1], size[2]) :
         callArgs = [mask |-> mask, width |-> size[1], height |-> size[2]]
  /\ callResult = <<>>

\* Step 5 of detectScreenArea on the mask alone
CallClosing ==
  LET dilated == dilate(callArgs.mask, callArgs.width, callArgs.height, morphologyKernel) IN
  Return([dilated |-> dilated,
          processedMask |-> erode(dilated, callArgs.width, callArgs.height,
                                  morphologyKernel)])

NextClosing == CallClosing
SpecClosing == InitClosing /\ [][NextClosing]_vars
\* --- the weighted centroid

CentroidW == 3       \* frame width
CentroidH == 2       \* frame height
\* blurred values: none, faint and full
CentroidValues == {0, Scale, 255 * Scale}

\* the blurred map and the pixels of the blob, every weight zero included
InitCentroid ==
  /\ InitIdle
  /\ callPc = "call"
  /\ \E blurred \in [0..(CentroidW * CentroidH - 1) -> CentroidValues] :
       \E pixels \in SUBSET (0..(CentroidW * CentroidH - 1)) \ {{}} :
         callArgs = [blurred |-> blurred, pixels |-> pixels]
  /\ callResult = <<>>

\* steps 7 and 8 of detectScreenArea
CallCentroid ==
  Return(ScreenDetection(callArgs.blurred, callArgs.pixels, CentroidW, CentroidH))

NextCentroid == CallCentroid
SpecCentroid == InitCentroid /\ [][NextCentroid]_vars
\* ------------------------------------------------------------------ claims

Registered == {connectedDevices[k].socketId : k \in 1..Len(connectedDevices)}
Events(name) == {k \in 1..Len(scanLog) : scanLog[k][1] = name}
FlashesOf(id) == {k \in Events("flash") : scanLog[k][2] = id}
Probing == scanPc \in {"flashHold", "probeSleep"}
\* a step of startScan that flashes a screen
FlashStep == Len(scanLog') > Len(scanLog) /\ scanLog'[Len(scanLog')][1] = "flash"
\* a step of startScan in which detectScreenArea returns null
NotDetectedStep == Cardinality(Events("notDetected")') > Cardinality(Events("notDetected"))
\* a step of startScan that captures a reference frame
RefCaptureStep == scanPc \in {"settle", "refSleep"} /\ scanFrames' = scanFrames + 1

\* C1: during the per-screen loop exactly one screen is lit: between a
\* screen's flash and its off that screen, if still registered, is the only
\* registered screen whose last commanded color is not black, and between its
\* off and the next flash no screen is lit.
C1_OneScreenLit ==
  /\ Probing => /\ Lit \subseteq {scanScreen}
                /\ scanScreen \in Registered => scanScreen \in Lit
  /\ scanPc = "cooldown" => Lit = {}

\* C2: every reference captureFrame call of a scan is made while every
\* registered screen's last commanded color is black, after clearPositions,
\* the all-off broadcast and the settle delay; the reference frames are
\* captured before any flash and only RefFrames of them are taken.
C2_ReferenceAllOff ==
  /\ [][RefCaptureStep => Lit = {}]_vars
  /\ [](\A k \in Events("capture") : scanLog[k][2] = 0 =>
          /\ k \in 4..(3 + RefFrames)
          /\ scanLog[1][1] = "clearPositions" /\ scanLog[2][1] = "allOff"
          /\ scanLog[3][1] = "settle"
          /\ \A j \in Events("flash") : k < j)

\* C3: a scan that has started returns to IDLE: once the async startScan has
\* ended, isScanning is false.
C3_ScanReturnsToIdle == scanPc \in {"idle", "threw"} => ~isScanning

\* C4: every screen in the list when the scan starts and connected until it
\* ends is flashed exactly once, no screen is flashed twice, and the reports
\* are emitted in the order of the probes.
C4_EveryScreenFlashedOnce ==
  /\ \A id \in Ids : Cardinality(FlashesOf(id)) <= 1
  /\ (scanPc = "idle" /\ scanLog # <<>>) =>
        \A id \in scanStart \cap Registered : Cardinality(FlashesOf(id)) = 1
  /\ \A j, k \in Events("reportPosition") : j < k => scanLog[j][3] < scanLog[k][3]

\* C5: after a stop request (stop button or blackout) issued while a scan is
\* running, no further screen is flashed.
C5_StopPreemptsScan == [][stopRequested => ~FlashStep]_vars

\* C6: a failed detection does not abort the scan: after "not detected" for
\* the screen at index i nothing is reported for it, it is turned off, the
\* cooldown elapses and the loop goes on with index i + 1 (or ends).
C6_FailureDoesNotAbort ==
  /\ [](\A k \in Events("notDetected") :
          LET id == scanLog[k][2]
              i == scanLog[k][3] IN
          /\ k + 1 <= Len(scanLog) /\ scanLog[k + 1] = <<"off", id, i>>
          /\ ~\E j \in Events("reportPosition") : scanLog[j][3] = i
          /\ k + 2 <= Len(scanLog) => scanLog[k + 2] = <<"cooldown", id, i>>
          /\ k + 3 <= Len(scanLog) =>
               \/ scanLog[k + 3][1] = "flash" /\ scanLog[k + 3][3] = i + 1
               \/ scanLog[k + 3][1] = "complete"
          /\ k + 1 = Len(scanLog) => scanPc = "cooldown" /\ isScanning)
  /\ [][NotDetectedStep =>
          c2s' = Append(c2s, [type |-> "sendColor", screenId |-> scanScreen,
                              color |-> Black])]_vars

C6_Witness ==
  \E k \in Events("notDetected") : \E j \in Events("flash") : j > k

\* the steps that may directly follow step a of a scan
Follows(a, b) ==
  CASE a[1] = "clearPositions" -> b[1] = "allOff"
    [] a[1] = "allOff" -> b[1] = "settle"
    [] a[1] = "settle" -> b = <<"capture", 0, 0>>
    [] a[1] = "capture" /\ a[2] = 0 ->
         b = a \/ (b[1] = "flash" /\ b[3] = 0) \/ b[1] = "complete"
    [] a[1] = "flash" -> b = <<"capture", a[2], a[3]>>
    [] a[1] = "capture" /\ a[2] # 0 ->
         b = a \/ b = <<"reportPosition", a[2], a[3]>> \/ b = <<"notDetected", a[2], a[3]>>
    [] a[1] \in {"reportPosition", "notDetected"} -> b = <<"off", a[2], a[3]>>
    [] a[1] = "off" -> b = <<"cooldown", a[2], a[3]>>
    [] a[1] = "cooldown" -> (b[1] = "flash" /\ b[3] = a[3] + 1) \/ b[1] = "complete"
    [] a[1] = "complete" -> FALSE

\* the scan's messages in flight, in order
ScanMessages == SelectSeq(c2s, LAMBDA m : m.type \in {"clearPositions", "sendColor",
                                                        "reportPosition"})

\* C7: the steps of a scan occur in the order of the protocol: clearPositions,
\* all-off, settle, reference captures, then per screen flash, probe captures,
\* report (if any), off, cooldown, the off of screen i before the flash of
\* screen i + 1; and the messages leave in that order (the last off of a scan
\* may be followed by the clearPositions of the next scan).
C7_ProtocolOrder ==
  /\ scanLog # <<>> => scanLog[1][1] = "clearPositions"
  /\ \A k \in 1..(Len(scanLog) - 1) : Follows(scanLog[k], scanLog[k + 1])
  /\ \A k \in Events("flash") :
       Cardinality({j \in Events("capture") : scanLog[j][2] = 0 /\ j < k}) = RefFrames
  /\ \A k \in Events("off") :
       Cardinality({j \in Events("capture") : scanLog[j][3] = scanLog[k][3]
                                              /\ scanLog[j][2] # 0 /\ j < k}) = ProbeFrames
  /\ \A m \in 1..(Len(ScanMessages) - 1) :
       LET a == ScanMessages[m]
           b == ScanMessages[m + 1] IN
       \/ a.type = "clearPositions"
       \/ a.type = "reportPosition" /\ b = [type |-> "sendColor", screenId |-> a.screenId,
                                            color |-> Black]
       \/ a.type = "sendColor" /\ a.color = White /\ b.type # "clearPositions"
                               /\ b.screenId = a.screenId
       \/ a.type = "sendColor" /\ a.color = Black /\ b.type = "sendColor"
                               /\ b.color = White
       \/ a.type = "sendColor" /\ a.color = Black /\ b.type = "clearPositions"

C7_Witness ==
  /\ scanLog # <<>> /\ scanLog[Len(scanLog)][1] = "complete"
  /\ \E k \in Events("flash") : scanLog[k][3] = 1
  /\ Events("reportPosition") # {}

\* C8: a scan requested with zero screens is reported: the request leaves a
\* trace in what startScan did.
C8_ZeroScreensReported ==
  [][(scanNo' = scanNo + 1 /\ Len(screens) = 0) => scanLog' # scanLog]_vars

\* the weighted centroid a detection reports, back in hundredths of a pixel
CentroidOf(d, width, height) ==
  IF width >= height
    THEN [x |-> d.center.x \div (2 * height),
          y |-> (d.center.y - (width - height) * 100 * height) \div (2 * height)]
    ELSE [x |-> (d.center.x - (height - width) * 100 * width) \div (2 * width),
          y |-> d.center.y \div (2 * width)]

\* the pixels of rectangle r inside the area a detection reports, denormalized
CoveredPixels(r, d, width, height) ==
  LET box == denormalizeRectFromSquare(d.area, width, height)
      pu == PixelUnit(width, height) IN
  {p \in PixelsOf(r, width) :
     /\ box.x <= (p % width) * pu /\ (p % width) * pu <= box.x + box.width
     /\ box.y <= (p \div width) * pu /\ (p \div width) * pu <= box.y + box.height}

PixelCount(r) == r.width * r.height
\* of two rectangles, the one with more pixels
Larger(rs) == IF PixelCount(rs[1]) > PixelCount(rs[2]) THEN rs[1] ELSE rs[2]
Smaller(rs) == IF PixelCount(rs[1]) > PixelCount(rs[2]) THEN rs[2] ELSE rs[1]

\* the reference frame is entirely black
BlackReference == \A p \in DOMAIN baseFrame.data : baseFrame.data[p] = 0

\* C9: with a black reference frame and a probe frame holding one uniformly
\* bright rectangle of more than minBlobSize pixels, detectScreenArea returns
\* a detection whose center lies within one pixel of the rectangle's center
\* and whose denormalized area covers at least 90% of the rectangle's pixels.
C9_SingleRectangleDetected ==
  (detPc = "done" /\ BlackReference /\ Len(rects) = 1
                  /\ PixelCount(rects[1]) > minBlobSize) =>
     /\ returned.found
     /\ LET c == CentroidOf(returned, baseFrame.width, baseFrame.height)
            r == rects[1] IN
          /\ Abs(c.x - (100 * r.x + 50 * (r.width - 1))) <= 100
          /\ Abs(c.y - (100 * r.y + 50 * (r.height - 1))) <= 100
     /\ 10 * Cardinality(CoveredPixels(rects[1], returned, baseFrame.width,
                                       baseFrame.height))
          >= 9 * PixelCount(rects[1])

\* C10: with two disjoint bright rectangles of different pixel counts over a
\* black reference frame, detectScreenArea returns one detection, that of the
\* rectangle with more pixels: the center lies inside it and no pixel of the
\* other rectangle is counted.
C10_LargerRectangleDetected ==
  (detPc = "done" /\ BlackReference /\ Len(rects) = 2) =>
     /\ returned.found
     /\ LET c == CentroidOf(returned, baseFrame.width, baseFrame.height)
            r == Larger(rects) IN
          /\ 100 * r.x <= c.x /\ c.x <= 100 * (r.x + r.width - 1)
          /\ 100 * r.y <= c.y /\ c.y <= 100 * (r.y + r.height - 1)
     /\ blob \cap PixelsOf(Smaller(rects), baseFrame.width) = {}
     /\ returned.pixelCount = Cardinality(blob)

\* C11: detectScreenArea(f, f) returns null: with the reference frame equal
\* to the probe frame the difference map is zero everywhere, the threshold
\* stays at its floor and no pixel is lit.
C11_IdenticalFramesReturnNull ==
  (detPc = "done" /\ baseFrame = activeFrame) =>
     /\ returned = NoDetection
     /\ \A p \in DOMAIN diffMap : diffMap[p] = 0
     /\ threshold = brightnessThreshold * Scale
     /\ \A p \in DOMAIN processedMask : processedMask[p] = 0

\* the call returned for identical frames that are not black
C11_Witness ==
  /\ detPc = "done"
  /\ baseFrame = activeFrame
  /\ Len(rects) = 2
  /\ returned = NoDetection

\* the pixels of a mask that are lit
LitPixels(mask) == {p \in DOMAIN mask : mask[p] = 255}

\* C12: detectScreenArea returns null exactly when the processed mask has no
\* lit pixel or its largest component has fewer than minBlobSize pixels, and
\* every detection returned has pixelCount >= minBlobSize.
C12_NullIffNoBlobOrSmall ==
  detPc = "done" =>
     /\ (blob = {}) <=> (LitPixels(processedMask) = {})
     /\ blob \subseteq LitPixels(processedMask)
     /\ (returned = NoDetection) <=> (blob = {} \/ Cardinality(blob) < minBlobSize)
     /\ returned.found =>
          /\ returned.pixelCount = Cardinality(blob)
          /\ returned.pixelCount >= minBlobSize

\* a detection returned for a blob of exactly minBlobSize pixels
C12_Witness ==
  /\ detPc = "done"
  /\ returned.found
  /\ returned.pixelCount = minBlobSize

\* the pairs of lit pixels of a mask that are 4-neighbours, or equal
Neighbours(mask, width) ==
  {pq \in LitPixels(mask) \X LitPixels(mask) :
     \/ pq[1] = pq[2]
     \/ Abs(pq[1] - pq[2]) = width
     \/ Abs(pq[1] - pq[2]) = 1 /\ pq[1] \div width = pq[2] \div width}

\* the reflexive transitive closure of a relation R on the set L
RECURSIVE TransitiveClosure(_, _)
TransitiveClosure(R, L) ==
  LET RR == {pq \in L \X L : \E m \in L : <<pq[1], m>> \in R /\ <<m, pq[2]>> \in R} IN
  IF RR = R THEN R ELSE TransitiveClosure(RR, L)

\* the maximal 4-connected regions of lit pixels of a mask
Components(mask, width) ==
  LET reach == TransitiveClosure(Neighbours(mask, width), LitPixels(mask)) IN
  {{q \in LitPixels(mask) : <<p, q>> \in reach} : p \in LitPixels(mask)}

\* the elements of a sequence
Range(s) == {s[k] : k \in 1..Len(s)}

\* C13: findLargestBlob returns null iff no pixel of the mask is 255; otherwise
\* its pixels are distinct and form a maximal 4-connected region of lit pixels,
\* no other such region has more pixels, and among the regions of that size
\* it is the one met first in row-major scan order.
C13_LargestBlob ==
  callPc = "return" =>
    LET mask == callArgs.mask
        pixels == callResult.pixels
        regions == Components(mask, callArgs.width) IN
      /\ (pixels = <<>>) <=> (LitPixels(mask) = {})
      /\ Cardinality(Range(pixels)) = Len(pixels)
      /\ callResult.blob = Range(pixels)
      /\ pixels # <<>> =>
           /\ Range(pixels) \in regions
           /\ \A c \in regions :
                \/ Cardinality(c) < Len(pixels)
                \/ Cardinality(c) = Len(pixels) /\ SetMin(Range(pixels)) <= SetMin(c)

\* the mask has three regions, the two largest of the same size, and the
\* call returned the first of them
C13_Witness ==
  /\ callPc = "return"
  /\ LET regions == Components(callArgs.mask, callArgs.width) IN
       /\ Cardinality(regions) = 3
       /\ \E c \in regions : /\ c # callResult.blob
                              /\ Cardinality(c) = Cardinality(callResult.blob)
                              /\ Cardinality(c) > 1
                              /\ SetMin(c) > SetMin(callResult.blob)

\* rect, in units of 1 / unit, has 0 <= x, y <= 1 and sizes between
\* minNormalizedArea and maxNormalizedArea (hundredths)
InClampBounds(rect, unit) ==
  /\ 0 <= rect.x /\ rect.x <= unit
  /\ 0 <= rect.y /\ rect.y <= unit
  /\ minNormalizedArea * unit <= 100 * rect.width
  /\ 100 * rect.width <= maxNormalizedArea * unit
  /\ minNormalizedArea * unit <= 100 * rect.height
  /\ 100 * rect.height <= maxNormalizedArea * unit

\* C14: for any rectangle, fields below 0 and above 1 included, clampRect
\* returns a rectangle with 0 <= x, y <= 1 and the sizes between
\* minNormalizedArea and maxNormalizedArea; a rectangle within these bounds is
\* returned unchanged, so clamping twice is clamping once.
C14_ClampRect ==
  callPc = "return" =>
     /\ InClampBounds(callResult.rect, Unit(1, 1))
     /\ InClampBounds(callArgs, Unit(1, 1)) => callResult.rect = callArgs
     /\ callResult.again = callResult.rect

\* a rectangle with a negative x, a y above 1, a width below the minimum and
\* a height above the maximum has been clamped
C14_Witness ==
  /\ callPc = "return"
  /\ callArgs.x < 0
  /\ callArgs.y > Unit(1, 1)
  /\ 100 * callArgs.width < minNormalizedArea * Unit(1, 1)
  /\ 100 * callArgs.height > maxNormalizedArea * Unit(1, 1)
  /\ callResult.rect # callArgs

\* C15: every detection returned lies in the unit square: the center has
\* 0 <= x, y <= 1 and the area has 0 <= x, 0 <= y, x + width <= 1 and
\* y + height <= 1, whatever the frame's size and orientation.
C15_DetectionInUnitSquare ==
  (detPc = "done" /\ returned.found) =>
     LET one == Unit(baseFrame.width, baseFrame.height) IN
       /\ 0 <= returned.center.x /\ returned.center.x <= one
       /\ 0 <= returned.center.y /\ returned.center.y <= one
       /\ 0 <= returned.area.x
       /\ 0 <= returned.area.y
       /\ returned.area.x + returned.area.width <= one
       /\ returned.area.y + returned.area.height <= one

\* C16: denormalizeRectFromSquare(normalizeRectToSquare(R, w, h), w, h) is R
\* exactly, for landscape and portrait frames, and normalizePointToSquare of
\* R's corner is the x and y of normalizeRectToSquare(R, w, h).
C16_SquareRoundTrip ==
  callPc = "return" =>
    LET pixel == PixelUnit(callArgs.width, callArgs.height)
        R == callArgs.rect IN
      /\ callResult.denormalized = [x |-> R.x * pixel, y |-> R.y * pixel,
                                    width |-> R.width * pixel, height |-> R.height * pixel]
      /\ callResult.point = [x |-> callResult.normalized.x, y |-> callResult.normalized.y]

\* a rectangle of a portrait frame went through the round trip, the padding
\* of the x axis added and taken away again
C16_Witness ==
  /\ callPc = "return"
  /\ callArgs.width < callArgs.height
  /\ callArgs.rect.x > 0 /\ callArgs.rect.width > 0 /\ callArgs.rect.height > 0
  /\ callResult.normalized.x
       > callArgs.rect.x * 200 * callArgs.width
  /\ callResult.denormalized.x = callArgs.rect.x * PixelUnit(callArgs.width, callArgs.height)

\* C17: averageFrames of N >= 1 frames of the same size returns a frame of
\* that size whose every channel is the mean of the inputs' channel rounded
\* to the nearest integer, within 0..255; one frame alone is returned as it
\* is; the input frames are left as they were.
C17_AverageFrames ==
  [][callPc' = "return" =>
       LET frames == callArgs
           N == Len(frames) IN
         /\ callArgs' = frames
         /\ callResult'.width = frames[1].width
         /\ callResult'.height = frames[1].height
         /\ DOMAIN callResult'.data = DOMAIN frames[1].data
         /\ \A i \in DOMAIN callResult'.data :
              LET sum == Sum([f \in 1..N |-> frames[f].data[i]], 1, N) IN
                /\ callResult'.data[i] \in 0..255
                /\ 2 * Abs(N * callResult'.data[i] - sum) <= N
         /\ N = 1 => callResult' = frames[1]]_vars

\* three frames have been averaged, one channel's mean rounded up and
\* another one's rounded down
C17_Witness ==
  /\ callPc = "return"
  /\ Len(callArgs) = MaxFrames
  /\ \E i, j \in DOMAIN callResult.data :
       /\ Len(callArgs) * callResult.data[i]
            > Sum([f \in 1..Len(callArgs) |-> callArgs[f].data[i]], 1, Len(callArgs))
       /\ Len(callArgs) * callResult.data[j]
            < Sum([f \in 1..Len(callArgs) |-> callArgs[f].data[j]], 1, Len(callArgs))

\* C18: sampleAreaColor of a stored area with x and y within [0,1] and the
\* sizes in the clamped range, over a virtual canvas of one color c, returns
\* exactly c.
C18_UniformSample ==
  (/\ callPc = "return"
   /\ callArgs.screen.area # <<>>
   /\ InClampBounds(callArgs.screen.area[1], Unit(1, 1))) =>
     callResult = callArgs.color

\* the Manhattan distance of two colors
Manhattan(c1, c2) == Abs(c1.r - c2.r) + Abs(c1.g - c2.g) + Abs(c1.b - c2.b)

\* a frame loop has processed a frame in this step
FrameProcessed == clock' # clock /\ lastTick'.kind \in {"processed", "final"}

\* the message emitted in this step, as a sequence of at most one message
Emitted == IF Len(c2s') > Len(c2s) THEN <<c2s'[Len(c2s')]>> ELSE <<>>

\* the colors transmitted to the screen id in this step
TransmittedTo(id) ==
  {e.color : e \in UNION {{m.data[k] : k \in {j \in 1..Len(m.data) : m.data[j].screenId = id}} :
                            m \in {Emitted[k] : k \in {j \in 1..Len(Emitted) :
                                                         Emitted[j].type = "sendColors"}}}}

\* C19: in each processed frame of the animation loop or of a one-shot loop,
\* a color is transmitted for an animated screen exactly if no color was sent
\* to it since lastColors was last cleared (the playback session) or the
\* Manhattan distance between the last color sent and the new color exceeds 3;
\* the color transmitted is the new color; lastColors changes only for a
\* screen a color is transmitted for; and after the frame the last color sent
\* to each animated screen is within distance 3 of the new color.
C19_ChangeSuppression ==
  [][FrameProcessed =>
       /\ \A id \in Ids : lastColors'[id] # lastColors[id] => TransmittedTo(id) # {}
       /\ \A id \in {i \in Ids : finalColors'[i] # NoColor} :
            /\ TransmittedTo(id) # {} <=>
                 (sent[id] = NoColor \/ Manhattan(sent[id], finalColors'[id]) > 3)
            /\ TransmittedTo(id) \subseteq {finalColors'[id]}
            /\ sent'[id] # NoColor
            /\ lastColors'[id] = sent'[id]
            /\ Manhattan(sent'[id], finalColors'[id]) <= 3]_vars

\* a frame of the animation loop has just sent the first screen's new color
\* and kept back the second screen's, which differs from the last one sent
C19_Witness ==
  /\ lastTick = [loop |-> "animate", kind |-> "processed"]
  /\ clock = lastFrameTime
  /\ c2s = <<[type |-> "sendColors",
              data |-> <<[screenId |-> 1, color |-> finalColors[1]]>>]>>
  /\ sent[2] # NoColor
  /\ finalColors[2] # NoColor
  /\ Manhattan(sent[2], finalColors[2]) \in 1..3

\* C20: the animation loop drops the frames that arrive faster than the frame
\* interval and never queues them: a processed frame comes at least
\* 1000/animationFPS ms (TicksPerSecond/animationFPS ticks) after the loop's
\* previous processed frame; a dropped tick renders nothing, emits nothing and
\* leaves lastColors unchanged; at most one callback of the loop is pending.
C20_FramesDropped ==
  [][/\ pendingFrames' <= 1
     /\ (clock' # clock /\ lastTick'.loop = "animate") =>
          /\ lastTick'.kind = "processed" =>
               /\ (clock' - lastFrameTime) * animationFPS >= TicksPerSecond
               /\ lastFrameTime' = clock'
          /\ lastTick'.kind = "dropped" =>
               /\ (clock' - lastFrameTime) * animationFPS < TicksPerSecond
               /\ finalColors' = finalColors
               /\ c2s' = c2s
               /\ lastColors' = lastColors
               /\ lastFrameTime' = lastFrameTime
               /\ pendingFrames' = pendingFrames]_vars

\* a tick has been dropped after the loop had processed a frame, and the
\* loop's next callback is pending
C20_Witness ==
  /\ lastTick = [loop |-> "animate", kind |-> "dropped"]
  /\ isAnimating
  /\ lastFrameTime > 0
  /\ clock > lastFrameTime
  /\ finalColors # NoColors
  /\ pendingFrames = 1

\* C21: colorDiff(a, b) = colorDiff(b, a) for all colors a and b with
\* channels in 0..255, and colorDiff(a, b) = 0 exactly if a and b have equal
\* r, g and b.
C21_ColorDiffSymmetric ==
  callPc = "return" =>
     /\ callResult.diff = callResult.swapped
     /\ callResult.diff = 0 <=>
          /\ callArgs[1].r = callArgs[2].r
          /\ callArgs[1].g = callArgs[2].g
          /\ callArgs[1].b = callArgs[2].b

\* two different colors whose signed channel differences cancel have been
\* compared
C21_Witness ==
  /\ callPc = "return"
  /\ callArgs[1] = [r |-> 1, g |-> 0, b |-> 255]
  /\ callArgs[2] = [r |-> 0, g |-> 1, b |-> 255]
  /\ callResult.diff = 2

\* the sockets registered with the type given
SocketsOf(devs, type) == {devs[k].socketId : k \in {j \in 1..Len(devs) : devs[j].type = type}}

\* C22: after the relay handles clearPositions, every registered screen
\* record has position null and area null; the records of the other devices
\* and every screen's identity, type, name and color are unchanged, as is the
\* registration order; and the cleared list of screens is sent to every
\* registered controller.
C22_ClearPositions ==
  [][OnClearPositions =>
       /\ Len(connectedDevices') = Len(connectedDevices)
       /\ lastState' = lastState
       /\ \A k \in 1..Len(connectedDevices) :
            LET old == connectedDevices[k]
                new == connectedDevices'[k]
            IN IF old.type = "screen"
                 THEN new = [socketId |-> old.socketId, id |-> old.id,
                             type |-> old.type, name |-> old.name,
                             position |-> Null, area |-> Null, color |-> old.color]
                 ELSE new = old
       /\ \A sock \in SocketsOf(connectedDevices, "controller") :
            \E k \in 1..Len(emitted') :
              /\ emitted'[k].to = sock
              /\ emitted'[k].event = "screenList"
              /\ emitted'[k].data.screens = ScreenRecords(connectedDevices')
              /\ \A j \in 1..Len(emitted'[k].data.screens) :
                   /\ emitted'[k].data.screens[j].position = Null
                   /\ emitted'[k].data.screens[j].area = Null
       /\ \A k \in 1..Len(emitted') :
            emitted'[k].to \in SocketsOf(connectedDevices, "controller")]_vars

\* the positions have been cleared with two controllers and a lit screen
\* registered: both controllers are sent the list with the cleared screen
C22_Witness ==
  /\ Cardinality(SocketsOf(connectedDevices, "controller")) = 2
  /\ Len(emitted) = 2
  /\ emitted[1].to # emitted[2].to
  /\ \A k \in 1..2 :
       /\ emitted[k].event = "screenList"
       /\ Len(emitted[k].data.screens) = 1
       /\ emitted[k].data.screens[1].position = Null
       /\ emitted[k].data.screens[1].area = Null
       /\ emitted[k].data.screens[1].color = White

\* the messages of emitted with the event given
EmittedOf(msgs, event) == SelectSeq(msgs, LAMBDA m : m.event = event)

\* C23: a screen that registers after one or more broadcastColor requests is
\* sent setColor with the most recent broadcast color, right after its
\* registered message, and its record's color is that color, whether or not a
\* controller is still registered; a screen that registers before any
\* broadcast is sent no setColor and its record's color is null.  The most
\* recent broadcast color is what broadcastColor stores in lastState, which
\* nothing else changes.
C23_InheritsBroadcast ==
  [][/\ \A sock \in 1..MaxSockets : \A name \in DeviceNames(sock, "screen") :
          registerOn(sock, "screen", name) =>
            LET device == DeviceOf(connectedDevices', sock) IN
            IF lastState \in Colors
              THEN /\ device.color = lastState
                   /\ EmittedOf(emitted', "setColor")
                        = <<[to |-> sock, event |-> "setColor", data |-> lastState]>>
                   /\ emitted'[1].event = "registered"
                   /\ emitted'[2].event = "setColor"
              ELSE /\ lastState = NoColor
                   /\ device.color = NoColor
                   /\ EmittedOf(emitted', "setColor") = <<>>
     /\ lastState' # lastState =>
          /\ lastState' \in Colors
          /\ EmittedOf(emitted', "setColor") = emitted'
          /\ \A k \in 1..Len(emitted') : emitted'[k].data = lastState'
          /\ \A k \in 1..Len(connectedDevices') :
               connectedDevices'[k].type = "screen"
                 => connectedDevices'[k].color = lastState']_vars

\* a screen has registered after a broadcast of white whose sender has gone:
\* no controller is registered and the screen is sent setColor with white
C23_Witness ==
  /\ lastState = White
  /\ nextId = 3
  /\ Len(connectedDevices) = 1
  /\ connectedDevices[1].socketId = 2
  /\ connectedDevices[1].type = "screen"
  /\ connectedDevices[1].color = White
  /\ Len(emitted) = 2
  /\ emitted[1].event = "registered"
  /\ emitted[2] = [to |-> 2, event |-> "setColor", data |-> White]

\* C24: a reportPosition whose screenId is not in the registry leaves the
\* registry unchanged, creates no record and emits nothing; a reportPosition
\* for a registered device changes only the position and the area of that
\* device's record.
C24_ReportPosition ==
  [][\A screenId \in 1..MaxSockets, pos \in Positions, area \in Areas :
       reportPositionOf(screenId, pos, area) =>
         IF IndexOf(connectedDevices, screenId) = {}
           THEN /\ connectedDevices' = connectedDevices
                /\ emitted' = <<>>
           ELSE /\ Len(connectedDevices') = Len(connectedDevices)
                /\ \A k \in 1..Len(connectedDevices) :
                     LET old == connectedDevices[k]
                         new == connectedDevices'[k]
                     IN IF old.socketId = screenId
                          THEN new = [old EXCEPT !.position = new.position,
                                                 !.area = new.area]
                          ELSE new = old]_vars

\* a position is reported for socket 1, which has disconnected, while the
\* controller on socket 2 stays registered: nothing is emitted
C24_Witness ==
  /\ emitted = <<>>
  /\ nextId = 3
  /\ Len(connectedDevices) = 1
  /\ connectedDevices[1].socketId = 2
  /\ connectedDevices[1].type = "controller"

\* the pixels above the noise floor
AboveFloor(data) == {p \in DOMAIN data : data[p] > 5 * Scale}
\* the rounding of the fixed-point mean, square root and product by 1.5 that
\* a threshold may hold, in units of 1 / Scale
Rounding == 3

\* 9 n^2 variance and 2n (t - mean) for the values of data at the pixels of
\* U, n = |U|: t is mean + 1.5 * stdDev when 2n (t - mean) is
\* 3 sqrt(n sumSq - sum * sum)
Statistics(t, data, U) ==
  LET n == Cardinality(U)
      sum == Sum([p \in DOMAIN data |-> IF p \in U THEN data[p] ELSE 0],
                 SetMin(DOMAIN data), SetMax(DOMAIN data))
      sumSq == Sum([p \in DOMAIN data |-> IF p \in U THEN data[p] * data[p] ELSE 0],
                   SetMin(DOMAIN data), SetMax(DOMAIN data))
  IN [spread |-> 9 * (n * sumSq - sum * sum),
      e |-> 2 * (n * t - sum),
      slack |-> 2 * n * Rounding]

\* mean + 1.5 * stdDev over U is at most t, up to Rounding
MeanPlusDeviationsAtMost(t, data, U) ==
  LET st == Statistics(t, data, U) IN
  /\ st.e + st.slack >= 0
  /\ (st.e + st.slack) * (st.e + st.slack) >= st.spread

\* mean + 1.5 * stdDev over U is at least t, up to Rounding
MeanPlusDeviationsAtLeast(t, data, U) ==
  LET st == Statistics(t, data, U) IN
  st.e - st.slack <= 0 \/ (st.e - st.slack) * (st.e - st.slack) <= st.spread

Chebyshev(p, q, width) ==
  Max2(Abs((p % width) - (q % width)), Abs((p \div width) - (q \div width)))

\* the lit pixels of a speckle: every lit pixel within kernelSize of p lies
\* with p in a box smaller than the kernel
Speckles(mask, width, kernelSize) ==
  {p \in LitPixels(mask) :
     LET near == {q \in LitPixels(mask) : Chebyshev(p, q, width) <= kernelSize} IN
     /\ SetMax({q % width : q \in near}) - SetMin({q % width : q \in near}) < kernelSize - 1
     /\ SetMax({q \div width : q \in near}) - SetMin({q \div width : q \in near})
          < kernelSize - 1}

\* C26: dilate-then-erode with the configured kernel removes isolated
\* speckle: a lit pixel, or a lit group smaller than the kernel, with no other
\* lit pixel within kernel distance is not lit in the processed mask.
C26_SpeckleRemoved ==
  callPc = "return" /\ "processedMask" \in DOMAIN callResult =>
    \A p \in Speckles(callArgs.mask, callArgs.width, morphologyKernel) :
      callResult.processedMask[p] = 0

\* lit pixels that face each other along a row or a column with one to
\* kernelSize - 1 pixels between them
Facing(mask, width, kernelSize) ==
  {pq \in LitPixels(mask) \X LitPixels(mask) :
     /\ pq[1] < pq[2]
     /\ pq[1] \div width = pq[2] \div width \/ pq[1] % width = pq[2] % width
     /\ Chebyshev(pq[1], pq[2], width) \in 2..kernelSize}

\* C27: dilate-then-erode never loses signal and merges adjacent fragments:
\* every pixel lit in the input mask is lit in the processed mask, at the
\* frame's border too; the values of the dilated and of the processed mask are
\* 0 or 255; and two lit fragments that face each other along a row or a
\* column across a gap of at most kernelSize - 1 pixels are in one 4-connected
\* component of the processed mask.
C27_ClosingKeepsAndMerges ==
  callPc = "return" /\ "processedMask" \in DOMAIN callResult =>
    LET mask == callArgs.mask
        width == callArgs.width
        height == callArgs.height
        processed == callResult.processedMask
    IN /\ DOMAIN processed = DOMAIN mask
       /\ \A p \in DOMAIN mask :
            /\ callResult.dilated[p] \in {0, 255}
            /\ processed[p] \in {0, 255}
            /\ mask[p] = 255 => processed[p] = 255
       /\ \A pq \in Facing(mask, width, morphologyKernel) :
            pq[2] \in floodFill(processed, {}, width, height,
                                pq[1] % width, pq[1] \div width)

\* two lit pixels at the ends of the middle row of the 4 x 3 mask, a gap of
\* two pixels between them: the processed mask joins them
C27_Witness ==
  /\ callPc = "return"
  /\ "processedMask" \in DOMAIN callResult
  /\ callArgs.width = MaskW
  /\ LitPixels(callArgs.mask) = {MaskW, 2 * MaskW - 1}
  /\ MaskW + 1 \in LitPixels(callResult.processedMask)
  /\ 2 * MaskW - 2 \in LitPixels(callResult.processedMask)

\* the bounding box of a blob
BoundingBox(pixels, width) ==
  [minX |-> SetMin({p % width : p \in pixels}),
   maxX |-> SetMax({p % width : p \in pixels}),
   minY |-> SetMin({p \div width : p \in pixels}),
   maxY |-> SetMax({p \div width : p \in pixels})]

\* the box that step 8 computes for the chosen blob
RefinedBox ==
  LET box == BoundingBox(blob, baseFrame.width) IN
  refineBoundingBox(blurredDiff, baseFrame.width, baseFrame.height,
                    box.minX, box.minY, box.maxX, box.maxY)

\* C28: the refined bounding box only moves edges outward: for every chosen
\* blob the box returned by refineBoundingBox contains the blob's bounding
\* box, so its width and height are not negative, and it does not extend
\* beyond the blob's bounding box expanded by the padding of 5 pixels and
\* clipped to the frame.
C28_RefinedBoxContainsBlob ==
  (detPc = "done" /\ returned.found) =>
    LET box == BoundingBox(blob, baseFrame.width)
        refined == RefinedBox
    IN /\ refined.minX <= box.minX /\ refined.maxX >= box.maxX
       /\ refined.minY <= box.minY /\ refined.maxY >= box.maxY
       /\ refined.maxX - refined.minX >= 0 /\ refined.maxY - refined.minY >= 0
       /\ refined.minX >= Max2(0, box.minX - 5)
       /\ refined.maxX <= Min2(baseFrame.width - 1, box.maxX + 5)
       /\ refined.minY >= Max2(0, box.minY - 5)
       /\ refined.maxY <= Min2(baseFrame.height - 1, box.maxY + 5)

\* v is the quotient total / weight in hundredths, rounded down
IsAverage(v, total, weight) == v * weight <= 100 * total /\ 100 * total < (v + 1) * weight

\* C29: the center reported is the average of the coordinates of the blob's
\* pixels weighted by the blurred value at each pixel, which lies within the
\* blob's bounding box; when the weights add up to zero it is the center of
\* the bounding box, and nothing is divided by zero.
C29_WeightedCentroid ==
  callPc = "return" /\ "pixelCount" \in DOMAIN callResult =>
    LET blurred == callArgs.blurred
        pixels == callArgs.pixels
        last == CentroidW * CentroidH - 1
        box == BoundingBox(pixels, CentroidW)
        totalWeight == Sum([p \in 0..last |-> IF p \in pixels THEN blurred[p] ELSE 0], 0, last)
        totalX == Sum([p \in 0..last |->
                         IF p \in pixels THEN (p % CentroidW) * blurred[p] ELSE 0], 0, last)
        totalY == Sum([p \in 0..last |->
                         IF p \in pixels THEN (p \div CentroidW) * blurred[p] ELSE 0], 0, last)
    IN IF totalWeight > 0
         THEN /\ \E x \in (100 * box.minX)..(100 * box.maxX) :
                   /\ IsAverage(x, totalX, totalWeight)
                   /\ callResult.center.x
                        = normalizePointToSquare(x, 0, CentroidW, CentroidH).x
              /\ \E y \in (100 * box.minY)..(100 * box.maxY) :
                   /\ IsAverage(y, totalY, totalWeight)
                   /\ callResult.center.y
                        = normalizePointToSquare(0, y, CentroidW, CentroidH).y
         ELSE callResult.center
                = normalizePointToSquare(50 * (box.minX + box.maxX),
                                         50 * (box.minY + box.maxY),
                                         CentroidW, CentroidH)

\* a blob of three pixels of the first row with the weights 1, 0 and 255: the
\* center is pulled to the third pixel, x = 510 / 256 = 1.99
C29_Witness ==
  /\ callPc = "return"
  /\ "pixelCount" \in DOMAIN callResult
  /\ callArgs.pixels = {0, 1, 2}
  /\ callArgs.blurred[0] = Scale /\ callArgs.blurred[1] = 0
  /\ callArgs.blurred[2] = 255 * Scale
  /\ callResult.center = normalizePointToSquare(199, 0, CentroidW, CentroidH)

\* the pixels whose row and column are within radius of those of p (what the
\* row pass and then the column pass read, clamped at the edges)
Window(p, width, height, radius) ==
  {q \in 0..(width * height - 1) : Chebyshev(p, q, width) <= radius}

\* C30: the difference map is non-negative, every value of it being
\* max(0, probe luminance - reference luminance); every blurred value is an
\* average of the values of the edge-clamped row and column neighbours within
\* the radius, so it lies between the smallest and the largest of them and of
\* the whole map; and a constant map is left unchanged by the blur.
C30_DifferenceAndBlur ==
  LET width == baseFrame.width
      height == baseFrame.height
      lum(frame, p) == Luminance(frame.data[p], frame.data[p], frame.data[p])
  IN /\ detPc \in {"diff", "blur"} =>
          \A p \in DOMAIN diffMap :
            /\ diffMap[p] >= 0
            /\ diffMap[p] = IF lum(activeFrame, p) > lum(baseFrame, p)
                              THEN lum(activeFrame, p) - lum(baseFrame, p) ELSE 0
     /\ detPc = "blur" =>
          /\ DOMAIN blurredDiff = DOMAIN diffMap
          /\ \A p \in DOMAIN blurredDiff :
               LET near == {diffMap[q] : q \in Window(p, width, height, gaussianBlurRadius)}
                   all == {diffMap[q] : q \in DOMAIN diffMap}
               IN /\ SetMin(near) <= blurredDiff[p] /\ blurredDiff[p] <= SetMax(near)
                  /\ SetMin(all) <= blurredDiff[p] /\ blurredDiff[p] <= SetMax(all)
          /\ (\A p, q \in DOMAIN diffMap : diffMap[p] = diffMap[q]) => blurredDiff = diffMap

\* a gray reference and a probe that is white at the first pixel and black
\* elsewhere: the difference is 155 at the first pixel and zero at the darker
\* ones, the blur spreads it over the near pixels and leaves the far ones zero
C30_Witness ==
  /\ detPc = "blur"
  /\ baseFrame.width = BlurW
  /\ baseFrame.data[0] = 100
  /\ activeFrame.data[0] = 255
  /\ \A p \in 1..(BlurW * BlurH - 1) : activeFrame.data[p] = 0 /\ diffMap[p] = 0
  /\ diffMap[0] = 155 * Scale
  /\ 0 < blurredDiff[0] /\ blurredDiff[0] < diffMap[0]
  /\ 0 < blurredDiff[1]
  /\ blurredDiff[BlurW - 1] = 0

\* the scan has emitted reportPosition for the screen id
Reported(id) == \E k \in 1..Len(scanLog) : scanLog[k][1] = "reportPosition" /\ scanLog[k][2] = id

\* the second scan has completed and each of its messages has been handled
RescanDelivered ==
  /\ scanNo = 2
  /\ scanPc = "idle"
  /\ c2s = <<>>

\* C31: after a scan completes and its messages are delivered in order, a
\* screen registered throughout the scan has a position in the relay exactly
\* if the scan emitted reportPosition for it; a position of the earlier scan
\* does not survive a scan that did not detect the screen.
C31_PositionsOfThisScan ==
  RescanDelivered =>
    \A k \in 1..Len(connectedDevices) :
      LET device == connectedDevices[k] IN
      /\ device.position # 0 <=> Reported(device.socketId)
      /\ device.position \in {0, scanNo}

\* the second scan detected screen 1 and not screen 2, which the first scan
\* had detected: screen 2 has no position
C31_Witness ==
  /\ RescanDelivered
  /\ Len(connectedDevices) = 2
  /\ connectedDevices[1].position = 2
  /\ connectedDevices[2].position = 0
  /\ Reported(1)
  /\ ~Reported(2)

\* C32: while a scan is in progress (isScanning) the play control stays
\* disabled (playBtn is the button's disabled flag): no screenList update,
\* stop or blackout during the scan enables it before the scan ends.
C32_PlayDisabledWhileScanning == isScanning => playBtn

\* C33: at most one color-producing frame loop is active at any time: the
\* animate loop and a one-shot frame loop are never pending together, and two
\* one-shot frame loops are never pending together.
C33_OneFrameLoop ==
  /\ ~(animationFrame /\ oneShots # <<>>)
  /\ Len(oneShots) <= 1

\* C34: isAnimating is true exactly when a frame callback of the continuous
\* animation is scheduled (animationFrame): the controller is never left with
\* isAnimating true while no animation loop is running.
C34_AnimatingIffLoop == isAnimating <=> animationFrame

\* the controller's screens list holds the screen id with a position
Positioned(id) == \E k \in 1..Len(screens) : screens[k].socketId = id /\ screens[k].position # 0

\* C35: every entry of a sendColors message emitted during playback targets a
\* screen that, when the message is emitted, is in the controller's screens
\* list with a position: a screen that left or whose position was cleared
\* after playback started gets no further animation color.
C35_TargetsAreCurrent ==
  [][(Len(c2s') = Len(c2s) + 1 /\ c2s'[Len(c2s')].type = "sendColors")
       => LET colors == c2s'[Len(c2s')].data IN
          \A k \in 1..Len(colors) : Positioned(colors[k].screenId)]_vars

\* the colors a message commands: none for a message that is not a color command
ColorsOf(m) ==
  IF m.type \in {"broadcastColor", "sendColor"} THEN {m.color}
  ELSE IF m.type = "sendColors" THEN {m.data[k].color : k \in 1..Len(m.data)}
  ELSE {}

\* C36: after blackout() the controller emits no color command other than
\* black until the next user-initiated action: no frame of the animation, no
\* one-shot loop and no bang fade timer scheduled before the blackout emits a
\* later sendColors or broadcastColor that is not black.
C36_BlackAfterBlackout ==
  [][(blackedOut /\ blackedOut' /\ Len(c2s') = Len(c2s) + 1)
       => ColorsOf(c2s'[Len(c2s')]) \subseteq {Black}]_vars

\* each field of rect, in units of 1 / unit, is within [0,1]
InUnitRange(rect, unit) ==
  \A f \in DOMAIN rect : 0 <= rect[f] /\ rect[f] <= unit

\* C37: the region sampleAreaColor reads lies inside the virtual canvas: for a
\* stored area with fields in [0,1], areaX + areaW <= canvasSize and
\* areaY + areaH <= canvasSize; without an area, the pixel index
\* floor(position * canvasSize) is in 0..canvasSize-1 for a position in [0,1].
C37_SampledInsideCanvas ==
  LET screen == callArgs.screen
      region == sampledRegion(screen, Unit(1, 1)) IN
  (/\ callPc = "return"
   /\ InUnitRange(screen.position, Unit(1, 1))
   /\ screen.area # <<>> => InUnitRange(screen.area[1], Unit(1, 1))) =>
     /\ 0 <= region.x /\ region.x + region.width <= canvasSize
     /\ 0 <= region.y /\ region.y + region.height <= canvasSize

\* identity, position and area of the records of a screen list
Placed(list) ==
  [k \in 1..Len(list) |-> [socketId |-> list[k].socketId,
                           position |-> list[k].position,
                           area |-> list[k].area]]

\* C38: whenever every message in flight has been delivered, the screens list
\* of each registered controller holds exactly the screen devices the relay
\* has registered, with the same identity, position and area, after any
\* register, reportPosition, clearPositions and disconnect events.
C38_ListsAgree ==
  Delivered =>
    \A k \in 1..Len(connectedDevices) :
      connectedDevices[k].type = "controller"
        => Placed(controllerScreens[connectedDevices[k].socketId])
             = Placed(ScreenRecords(connectedDevices))

\* two controllers and a screen are registered, the screen's position has
\* been reported, and both pages list it with that position
C38_Witness ==
  /\ Delivered
  /\ Cardinality(SocketsOf(connectedDevices, "controller")) = 2
  /\ Len(ScreenRecords(connectedDevices)) = 1
  /\ ScreenRecords(connectedDevices)[1].position \in Positions
  /\ \A k \in 1..Len(connectedDevices) :
       connectedDevices[k].type = "controller"
         => controllerScreens[connectedDevices[k].socketId]
              = ScreenRecords(connectedDevices)

\* the animate loop processes, in this step, its first frame since
\* startAnimation
FirstAnimateFrame ==
  /\ clock' # clock
  /\ lastTick' = [loop |-> "animate", kind |-> "processed"]
  /\ lastFrameTime = 0

\* a one-shot loop processes, in this step, its first frame since runOneShot
FirstOneShotFrame ==
  /\ clock' # clock
  /\ lastTick'.loop = "oneShot"
  /\ lastTick'.kind \in {"processed", "final"}
  /\ Len(oneShots) = 1
  /\ oneShots[1].lastFrameTime = 0

\* C39: each playback session starts from an empty lastColors: the first
\* processed frame of a continuous or a one-shot playback transmits a color
\* to every screen it animates, whatever was sent before.
C39_FirstFrameSendsAll ==
  [][/\ FirstAnimateFrame
          => \A id \in IdsOf(detectedScreens) : TransmittedTo(id) # {}
     /\ FirstOneShotFrame
          => \A id \in IdsOf(oneShots[1].detectedScreens) : TransmittedTo(id) # {}]_vars

====
